---- MODULE Spec2Model ----
(***************************************************************************)
(* Model of package placesmap (metakeule/places): the prefix registry      *)
(* (_map), the placeholder grammar (split) and the HTML template mapper    *)
(* (HTMLTemplateMapper) with its each / require / include expansion.       *)
(*                                                                         *)
(* A Go string is a sequence of one-character strings.  A Go map is a      *)
(* function whose domain is the set of its keys.  A places.Mapper value is *)
(* a record whose field kind names its dynamic type.                       *)
(***************************************************************************)
EXTENDS Integers, Sequences, FiniteSets, TLC

VARIABLES
    mp,       \* the registry: _map, prefix -> places.Mapper
    first,    \* history: prefix -> the mapper of its first successful Add
    regOp,    \* the last registry call with its arguments and results
    tm,       \* the HTMLTemplateMapper, with the HTMLTemplate it points to
    calls,    \* history: the top-level Map calls on tm, with their results
    cc,       \* the _map_concurrent and the goroutines that call it
    ht,       \* a HTMLTemplate under construction and the lookups of its rsm
    rn,       \* two HTMLTemplateMappers of one HTMLTemplate, rendering
    tl,       \* a TemplateLoader, the file system it loads from, its result
    rs,       \* a ReadSeekerMap and the goroutines that call it
    sp        \* the last call of split with its argument and results

regVars == <<mp, first, regOp>>

engineVars == <<tm, calls>>

vars == <<mp, first, regOp, tm, calls, cc, ht, rn, tl, rs, sp>>

\* the value of a variable whose part of the program a specification does
\* not run
NotStarted == [started |-> FALSE]

----------------------------------------------------------------------------
(* Bounds of the model *)

\* longest prefix handed to Add
MaxPrefixLen == 2
\* longest name handed to a registered mapper through Map
MaxNameLen == 2
\* most elements of a bound collection
MaxLen == 2
\* most top-level Map calls on one HTMLTemplateMapper
MaxCalls == 2
\* nested Map calls the goroutine's stack has room for
MaxStack == 6

\* the strings over the characters cs of length at most n
RECURSIVE StringsUpTo(_, _)
StringsUpTo(cs, n) ==
    IF n = 0 THEN {<<>>}
    ELSE LET shorter == StringsUpTo(cs, n - 1) IN
         shorter \cup {<<c>> \o w : c \in cs, w \in {v \in shorter : Len(v) = n - 1}}

\* prefixes handed to Add: lower-case and other characters
Prefixes == StringsUpTo({"a", "A"}, MaxPrefixLen)

\* names looked up, with and without surrounding white space
Names == StringsUpTo({"n", " "}, MaxNameLen)

\* inputs handed to the registry's Map
RegistryInputs ==
    {<<>>, <<"-">>} \cup Names
        \cup {<<"-">> \o p : p \in Prefixes}
        \cup {<<"-">> \o p \o <<" ">> \o n : p \in Prefixes, n \in Names}

----------------------------------------------------------------------------
(* Strings *)

EmptyString == <<>>

\* unicode.IsSpace, on the characters of the model
WhiteSpace == {" ", "\t", "\n"}

\* the characters [a-z] of prefixRule that the model uses
LowerLetters == {"a", "b", "c", "d", "e", "f", "g", "h", "i", "j", "k", "l", "m",
                 "n", "o", "p", "q", "r", "s", "t", "u", "v", "w", "x", "y", "z"}

\* strings.IndexRune(s, c): the 0-based index of the first c in s, or -1
IndexRune(s, c) ==
    IF \E i \in 1..Len(s) : s[i] = c
    THEN (CHOOSE i \in 1..Len(s) : s[i] = c /\ \A j \in 1..(i - 1) : s[j] # c) - 1
    ELSE -1

\* the Go slice expression s[lo:hi], 0-based, hi exclusive
Slice(s, lo, hi) == SubSeq(s, lo + 1, hi)

RECURSIVE TrimLeft(_)
TrimLeft(s) ==
    IF s = <<>> \/ s[1] \notin WhiteSpace THEN s ELSE TrimLeft(Tail(s))

RECURSIVE TrimRight(_)
TrimRight(s) ==
    IF s = <<>> \/ s[Len(s)] \notin WhiteSpace THEN s
    ELSE TrimRight(SubSeq(s, 1, Len(s) - 1))

\* strings.TrimSpace
TrimSpace(s) == TrimRight(TrimLeft(s))

\* split with the remainder left untrimmed
split_NoTrim(input) ==
    IF input = <<>> \/ input = <<"-">> THEN [prefix |-> <<>>, rest |-> <<>>]
    ELSE IF input[1] # "-" THEN [prefix |-> <<>>, rest |-> input]
    ELSE LET idx == IndexRune(input, " ") IN
         IF idx = -1
         THEN [prefix |-> Slice(input, 1, Len(input)), rest |-> <<>>]
         ELSE [prefix |-> Slice(input, 1, idx),
               rest |-> Slice(input, idx + 1, Len(input))]

\* split(input) (prefix, rest)
split(input) ==
    IF input = <<>> \/ input = <<"-">> THEN [prefix |-> <<>>, rest |-> <<>>]
    ELSE IF input[1] # "-" THEN [prefix |-> <<>>, rest |-> input]
    ELSE LET idx == IndexRune(input, " ") IN
         IF idx = -1
         THEN [prefix |-> Slice(input, 1, Len(input)), rest |-> <<>>]
         ELSE [prefix |-> Slice(input, 1, idx),
               rest |-> TrimSpace(Slice(input, idx, Len(input)))]

----------------------------------------------------------------------------
(* places.Mapper values *)

\* the nil interface value
nil == [kind |-> "nil"]

\* placesmap.Empty{}
Empty == [kind |-> "Empty"]

\* placesmap.String(s)
String(s) == [kind |-> "String", s |-> s]

\* placesmap.Self(s)
Self(s) == [kind |-> "Self", s |-> s]

\* Company{Name} of the example program
Company(name) == [kind |-> "Company", Name |-> name]

\* Companies{...}: cs is a sequence of Company values
Companies(cs) == [kind |-> "Companies", c |-> cs]

\* User{Firstname, Lastname, ID, Companies}
User(firstname, lastname, id, companies) ==
    [kind |-> "User", Firstname |-> firstname, Lastname |-> lastname,
     ID |-> id, Companies |-> companies]

\* Users{...}: us is a sequence of User values
Users(us) == [kind |-> "Users", u |-> us]

\* m.Map(in), by the dynamic type of m
MapperMap(m, in) ==
    CASE m.kind = "Empty" -> <<>>
      [] m.kind = "String" -> m.s
      [] m.kind = "Self" -> m.s \o in
      [] m.kind = "Company" -> IF in = <<"n", "a", "m", "e">> THEN m.Name ELSE <<>>
      [] m.kind = "Companies" -> <<>>
      [] m.kind = "User" ->
            CASE in = <<"f", "i", "r", "s", "t", "n", "a", "m", "e">> -> m.Firstname
              [] in = <<"l", "a", "s", "t", "n", "a", "m", "e">> -> m.Lastname
              [] in = <<"i", "d">> -> m.ID
              [] OTHER -> <<>>
      [] m.kind = "Users" -> <<>>

\* m.(NMapper): whether the dynamic type of m has NMap and Len
IsNMapper(m) == m.kind \in {"Companies", "Users"}

\* nm.Len()
NMapperLen(nm) ==
    CASE nm.kind = "Companies" -> Len(nm.c)
      [] nm.kind = "Users" -> Len(nm.u)

\* nm.NMap(n, sub), n counted from 0
NMap(nm, n, sub) ==
    CASE nm.kind = "Companies" ->
            IF n > Len(nm.c) - 1 THEN String(<<>>) ELSE nm.c[n + 1]
      [] nm.kind = "Users" ->
            IF n > Len(nm.u) - 1 THEN String(<<>>)
            ELSE IF sub = <<"c", "o", "m", "p", "a", "n", "i", "e", "s">>
                 THEN nm.u[n + 1].Companies
                 ELSE nm.u[n + 1]

----------------------------------------------------------------------------
(* The registry: type _map *)

ErrInvalidPrefix == [err |-> "ErrInvalidPrefix"]

MapperAlreadyExistsError(prefix) ==
    [err |-> "MapperAlreadyExistsError", prefix |-> prefix]

NoError == [err |-> "nil"]

\* prefixRule.MatchString(prefix), prefixRule = ^[a-z]+$
prefixRule(prefix) ==
    Len(prefix) >= 1 /\ \A i \in 1..Len(prefix) : prefix[i] \in LowerLetters

\* Add that overwrites a registered prefix
map_Add_Overwrite(reg, prefix, mapper) ==
    IF prefix # <<>> /\ ~prefixRule(prefix)
    THEN [mp |-> reg, err |-> ErrInvalidPrefix]
    ELSE [mp |-> [p \in DOMAIN reg \cup {prefix} |->
                     IF p = prefix THEN mapper ELSE reg[p]],
          err |-> NoError]

\* Add that does not validate the prefix
map_Add_NoRule(reg, prefix, mapper) ==
    IF prefix \in DOMAIN reg
    THEN [mp |-> reg, err |-> MapperAlreadyExistsError(prefix)]
    ELSE [mp |-> [p \in DOMAIN reg \cup {prefix} |->
                     IF p = prefix THEN mapper ELSE reg[p]],
          err |-> NoError]

\* func (mp _map) Add(prefix string, mapper places.Mapper) error
map_Add(reg, prefix, mapper) ==
    IF prefix # <<>> /\ ~prefixRule(prefix)
    THEN [mp |-> reg, err |-> ErrInvalidPrefix]
    ELSE IF prefix \in DOMAIN reg
    THEN [mp |-> reg, err |-> MapperAlreadyExistsError(prefix)]
    ELSE [mp |-> [p \in DOMAIN reg \cup {prefix} |->
                     IF p = prefix THEN mapper ELSE reg[p]],
          err |-> NoError]

\* Map without the early return for an empty prefix and remainder
map_Map_NoEarlyReturn(reg, input) ==
    LET s == split(input) IN
    IF s.prefix \notin DOMAIN reg THEN [out |-> <<>>, calls |-> <<>>]
    ELSE [out |-> MapperMap(reg[s.prefix], s.rest),
          calls |-> <<[mapper |-> reg[s.prefix], arg |-> s.rest]>>]

\* func (mp _map) Map(input string) string: the result, and the calls of
\* registered mappers it made
map_Map(reg, input) ==
    LET s == split(input) IN
    IF s.prefix = <<>> /\ s.rest = <<>> THEN [out |-> <<>>, calls |-> <<>>]
    ELSE IF s.prefix \notin DOMAIN reg THEN [out |-> <<>>, calls |-> <<>>]
    ELSE [out |-> MapperMap(reg[s.prefix], s.rest),
          calls |-> <<[mapper |-> reg[s.prefix], arg |-> s.rest]>>]

----------------------------------------------------------------------------
(* Escaping: html.EscapeString, url.QueryEscape, fmt.Sprintf("%#v", s) *)

\* the application of f to every character of s, concatenated
RECURSIVE FlatMap(_, _)
FlatMap(f, s) == IF s = <<>> THEN <<>> ELSE f[s[1]] \o FlatMap(f, Tail(s))

\* the characters that values of the model are made of
ValueChars == LowerLetters \cup {"A", "B", "C", "F", "L", "U", "0", "1", "2", "3", "4",
                                 "5", "6", "7", "8", "9", "<", ">", "&", " ", ";", "|",
                                 "\"", "'", "\\", "."}

\* html.EscapeString
HTMLEscapeString(s) ==
    FlatMap([c \in ValueChars |->
                CASE c = "&" -> <<"&", "a", "m", "p", ";">>
                  [] c = "<" -> <<"&", "l", "t", ";">>
                  [] c = ">" -> <<"&", "g", "t", ";">>
                  [] c = "\"" -> <<"&", "#", "3", "4", ";">>
                  [] c = "'" -> <<"&", "#", "3", "9", ";">>
                  [] OTHER -> <<c>>], s)

\* url.QueryEscape
QueryEscape(s) ==
    FlatMap([c \in ValueChars |->
                CASE c = " " -> <<"+">>
                  [] c = "&" -> <<"%", "2", "6">>
                  [] c = "<" -> <<"%", "3", "C">>
                  [] c = ">" -> <<"%", "3", "E">>
                  [] c = ";" -> <<"%", "3", "B">>
                  [] c = "|" -> <<"%", "7", "C">>
                  [] c = "\"" -> <<"%", "2", "2">>
                  [] c = "'" -> <<"%", "2", "7">>
                  [] c = "\\" -> <<"%", "5", "C">>
                  [] OTHER -> <<c>>], s)

\* fmt.Sprintf("%#v", s) of a string s: the Go-syntax quoted string
GoQuote(s) ==
    <<"\"">> \o FlatMap([c \in ValueChars |->
                            CASE c = "\"" -> <<"\\", "\"">>
                              [] c = "\\" -> <<"\\", "\\">>
                              [] OTHER -> <<c>>], s) \o <<"\"">>

\* fmt.Sprintf("%#v", m) of a mapper m that is no NMapper: a String or a Self
\* prints as its quoted string, an Empty as a struct without fields
GoSyntax(m) ==
    CASE m.kind \in {"String", "Self"} -> GoQuote(m.s)
      [] OTHER -> <<"p", "l", "a", "c", "e", "s", "m", "a", "p", ".", "E", "m", "p", "t", "y", "{", "}">>

----------------------------------------------------------------------------
(* The template mapper: HTMLTemplate and HTMLTemplateMapper *)

\* no panic so far
NoFault == "none"

\* the result of a call that returns out and leaves the mapper as h
Return(h, out) == [h |-> h, out |-> out]

\* the result of a call that panics with the mapper as h: it does not return
Panic(h, what) == [h |-> [h EXCEPT !.fault = what], out |-> <<>>]

\* whether the result r of a call is a panic
Panicked(r) == r.h.fault # NoFault

\* the result r of a call that wrote r.out after out had been written
Joined(out, r) == [h |-> r.h, out |-> out \o r.out]

\* the call r followed by the call K on the mapper as r left it, both
\* writing to the same buffer; a panic of r ends both
AndThen(r, K(_)) == IF Panicked(r) THEN r ELSE Joined(r.out, K(r.h))

\* the call r followed by the assignments F to the mapper
Finally(r, F(_)) == IF Panicked(r) THEN r ELSE Return(F(r.h), r.out)

\* h.HTMLTemplate.RLock()
RLock(h) == [h EXCEPT !.readers = @ + 1]

\* h.HTMLTemplate.RUnlock()
RUnlock(h) == [h EXCEPT !.readers = @ - 1]

\* h.preferred = nil together with delete(h.m, ...) of every binding
ClearPreferred_AndBindings(h) == [h EXCEPT !.preferred = nil, !.m = [name \in {} |-> nil]]

\* h.preferred = nil
ClearPreferred(h) == [h EXCEPT !.preferred = nil]

\* h.indexes = []NMapper{}; h.depth = 0
ResetIndexes(h) == [h EXCEPT !.indexes = <<>>, !.depth = 0]

\* h with event e appended to the record of the running top-level call
Logged(h, e) == [h EXCEPT !.trace = Append(@, e)]

\* len(strings.Split(sub, ".")) for a non-empty sub
SplitCount(sub) == Cardinality({i \in 1..Len(sub) : sub[i] = "."}) + 1

\* mp, ok := h.m[name] that finds every name
BindingLookup_AlwaysFound(b, name) ==
    [ok |-> TRUE, mp |-> IF name \in DOMAIN b THEN b[name] ELSE Empty]

\* mp, ok := h.m[name]
BindingLookup(b, name) ==
    [ok |-> name \in DOMAIN b, mp |-> IF name \in DOMAIN b THEN b[name] ELSE nil]

\* the loop condition that also admits i = l
LoopCondition_Inclusive(i, l) == i <= l

\* the condition i < l of the loops over a collection
LoopCondition(i, l) == i < l

\* func (h *HTMLTemplateMapper) findMapper(depth int) NMapper
findMapper(h, depth) ==
    IF Len(h.indexes) > depth THEN Return(h, nil)
    ELSE IF depth - 1 < 0 \/ depth - 1 >= Len(h.indexes)
    THEN Panic(h, "index out of range")
    ELSE Return(h, h.indexes[depth])

\* the loop of findNestedMapper from d on, m the mapper found so far
RECURSIVE findNestedMapperLoop(_, _, _, _)
findNestedMapperLoop(h, d, n, m) ==
    IF ~(d <= n) THEN Return(h, m)
    ELSE LET nm == findMapper(h, d) IN
         IF Panicked(nm) THEN nm
         ELSE IF nm.out = nil THEN Return(h, m)
         ELSE findNestedMapperLoop(h, d + 1, n, nm.out)

\* func (h *HTMLTemplateMapper) findNestedMapper(sub string) places.Mapper
findNestedMapper(h, sub) ==
    IF sub = <<>> THEN Return(h, String(<<>>))
    ELSE IF SplitCount(sub) # h.depth
    THEN Return(h, String(<<"[", "E", "r", "r", "o", "r", "]", " ", "t", "o", "o", " ", "d", "e", "e", "p", " ", "v", "a", "r", " ", "d", "e", "c", "l", "a", "r", "a", "t", "i", "o", "n">>))
    ELSE findNestedMapperLoop(h, 0, SplitCount(sub), nil)

\* leaving an each expansion without h.depth--
eachLeave_KeepDepth(h) ==
    IF Len(h.indexes) - 1 < 0
    THEN Panic(ClearPreferred(h), "slice bounds out of range")
    ELSE Return([h EXCEPT !.preferred = nil,
                          !.indexes = SubSeq(@, 1, Len(@) - 1)], <<>>)

\* the end of an each expansion: h.preferred = nil,
\* h.indexes = h.indexes[:len(h.indexes)-1], h.depth--
eachLeave(h) ==
    IF Len(h.indexes) - 1 < 0
    THEN Panic(ClearPreferred(h), "slice bounds out of range")
    ELSE Return([h EXCEPT !.preferred = nil,
                          !.indexes = SubSeq(@, 1, Len(@) - 1),
                          !.depth = @ - 1], <<>>)

RECURSIVE HTMLTemplateMapper_Map(_, _, _)
RECURSIVE ReplaceMapperFrom(_, _, _, _)
RECURSIVE replaceVars(_, _, _, _, _)
RECURSIVE replaceVarsLoop(_, _, _, _, _, _, _)
RECURSIVE eachLoop(_, _, _, _, _, _, _)

\* func (t *Template) ReplaceMapper(bf, h) of package places: the text it
\* writes to bf; t is the parsed template, a sequence of literal texts and
\* placeholders
ReplaceMapper(h, t, fuel) == ReplaceMapperFrom(h, t, 1, fuel)

\* ReplaceMapper from the pos-th part of t on
ReplaceMapperFrom(h, t, pos, fuel) ==
    IF pos > Len(t) THEN Return(h, <<>>)
    ELSE AndThen(IF t[pos].type = "lit"
                 THEN Return(h, t[pos].s)
                 ELSE HTMLTemplateMapper_Map(h, t[pos].s, fuel),
                 LAMBDA hh : ReplaceMapperFrom(hh, t, pos + 1, fuel))

\* require that answers an absent template with its name
require_AbsentGivesName(h, name, fuel) ==
    IF name \in DOMAIN h.rsm
    THEN Finally(ReplaceMapper(RLock(h), h.rsm[name], fuel), RUnlock)
    ELSE Return(RUnlock(RLock(h)), name)

\* func (h *HTMLTemplateMapper) require(name string, m places.Mapper) string,
\* m being h itself at both call sites
require(h, name, fuel) ==
    IF name \in DOMAIN h.rsm
    THEN Finally(ReplaceMapper(RLock(h), h.rsm[name], fuel), RUnlock)
    ELSE Return(RUnlock(RLock(h)), <<>>)

\* the body of the loop of replaceVars for index i
replaceVarsStep(h, t, nm, sub, i, fuel) ==
    IF IsNMapper(NMap(nm, i, sub))
    THEN replaceVars(h, t, NMap(nm, i, sub), sub, fuel)
    ELSE Finally(ReplaceMapper([h EXCEPT !.preferred = NMap(nm, i, sub)], t, fuel),
                 ClearPreferred)

\* the loop of replaceVars from index i on, l being nm.Len()
replaceVarsLoop(h, t, nm, sub, i, l, fuel) ==
    IF ~LoopCondition(i, l) THEN Return(h, <<>>)
    ELSE AndThen(replaceVarsStep(
                     Logged(h, [ev |-> "NMap", by |-> "replaceVars", nm |-> nm,
                                i |-> i, sub |-> sub]),
                     t, nm, sub, i, fuel),
                 LAMBDA hh : replaceVarsLoop(hh, t, nm, sub, i + 1, l, fuel))

\* func (h *HTMLTemplateMapper) replaceVars(bf, t, nm, sub): the text it
\* writes to bf
replaceVars(h, t, nm, sub, fuel) ==
    replaceVarsLoop(h, t, nm, sub, 0, NMapperLen(nm), fuel)

\* the each loop's rendering of a leaf element under a dotted path sub
eachNestedLeaf(h, t, sub, fuel) ==
    LET f == findNestedMapper([h EXCEPT !.depth = SplitCount(sub)], sub) IN
    IF Panicked(f) THEN f
    ELSE Finally(ReplaceMapper([f.h EXCEPT !.preferred = f.out], t, fuel),
                 ResetIndexes)

\* the body of the loop of the each directive for index i
eachStep(h, t, nm, sub, i, fuel) ==
    IF IsNMapper(NMap(nm, i, sub))
    THEN IF h.depth - 1 < 0 \/ h.depth - 1 >= Len(h.indexes)
         THEN Panic(h, "index out of range")
         ELSE replaceVars([h EXCEPT !.indexes[h.depth] = NMap(nm, i, sub)],
                          t, NMap(nm, i, sub), sub, fuel)
    ELSE IF sub # <<>>
    THEN eachNestedLeaf(h, t, sub, fuel)
    ELSE Finally(ReplaceMapper([h EXCEPT !.preferred = NMap(nm, i, sub)], t, fuel),
                 ClearPreferred)

\* the loop of the each directive in _map from index i on, l being nm.Len()
eachLoop(h, t, nm, sub, i, l, fuel) ==
    IF ~LoopCondition(i, l) THEN Return(h, <<>>)
    ELSE AndThen(eachStep(
                     Logged(h, [ev |-> "NMap", by |-> "each", nm |-> nm,
                                i |-> i, sub |-> sub]),
                     t, nm, sub, i, fuel),
                 LAMBDA hh : eachLoop(hh, t, nm, sub, i + 1, l, fuel))

\* the expansion of the collection nm with the template t: the loop, the
\* trailing replaceVars and the end of the expansion
eachExpand(h, t, nm, sub, fuel) ==
    AndThen(AndThen(eachLoop([h EXCEPT !.depth = @ + 1,
                                       !.indexes = Append(@, nil)],
                             t, nm, sub, 0, NMapperLen(nm), fuel),
                    LAMBDA hh : replaceVars(hh, t, nm, sub, fuel)),
            eachLeave)

\* the each directive of _map: rest is the remainder after "-each".
each(h, rest, fuel) ==
    LET idx == IndexRune(rest, " ") IN
    IF idx = -1 THEN Panic(h, "index out of range")
    ELSE
    LET name == TrimSpace(Slice(rest, 0, idx))
        inc == TrimSpace(Slice(rest, idx + 1, Len(rest)))
        dot == IndexRune(name, ".")
        mpName == IF dot = -1 THEN name ELSE Slice(name, 0, dot)
        sub == IF dot = -1 THEN <<>> ELSE Slice(name, dot + 1, Len(name))
        found == BindingLookup(h.m, mpName)
    IN  IF ~found.ok THEN Return(h, <<>>)
        ELSE IF inc \notin DOMAIN h.rsm THEN Return(RLock(RLock(h)), <<>>)
        ELSE IF ~IsNMapper(found.mp)
        THEN Return(RLock(RLock(h)), <<"n", "o", "t", " ", "a", " ", "N", "M", "a", "p", "p", "e", "r", ":", " ">> \o GoSyntax(found.mp) \o <<"\n">>)
        ELSE eachExpand(RLock(RLock(h)), h.rsm[inc], found.mp, sub, fuel)

\* the plain lookup of _map with its escaping directive
lookup(h, prefix, rest, fuel) ==
    LET found == BindingLookup(h.m, rest) IN
    IF ~found.ok THEN Return(h, <<>>)
    ELSE
    CASE prefix = <<"j", "s">> -> Return(h, GoQuote(MapperMap(found.mp, rest)))
      [] prefix = <<"r", "a", "w">> -> Return(h, MapperMap(found.mp, rest))
      [] prefix = <<"h", "t", "m", "l">> -> Return(h, MapperMap(found.mp, rest))
      [] prefix = <<"u", "r", "l">> -> Return(h, QueryEscape(MapperMap(found.mp, rest)))
      [] prefix = <<"i", "n", "c", "l", "u", "d", "e">> ->
            IF MapperMap(found.mp, TrimSpace(rest)) # <<>>
            THEN require(h, MapperMap(found.mp, TrimSpace(rest)), fuel)
            ELSE Return(h, <<>>)
      [] OTHER -> Return(h, HTMLEscapeString(MapperMap(found.mp, rest)))

\* func (h *HTMLTemplateMapper) _map(input string) string
HTMLTemplateMapper_map(h, input, fuel) ==
    IF split(input).prefix = <<"r", "e", "q", "u", "i", "r", "e">> THEN require(h, split(input).rest, fuel)
    ELSE IF split(input).prefix = <<"e", "a", "c", "h">> THEN each(h, split(input).rest, fuel)
    ELSE lookup(h, split(input).prefix, split(input).rest, fuel)

\* the fields of h that a render works with
RenderState(hh) ==
    [preferred |-> hh.preferred, indexes |-> hh.indexes, depth |-> hh.depth]

\* the return of the call Map(input) that found the mapper as h, entered in
\* the record of the top-level call
MapReturn(r, input, h, shadowed, fuel) ==
    IF Panicked(r) THEN r
    ELSE Return(Logged(r.h, [ev |-> "Map", input |-> input,
                             preferred |-> h.preferred, shadowed |-> shadowed,
                             out |-> r.out, fuel |-> fuel,
                             entry |-> RenderState(h),
                             exit |-> RenderState(r.h)]),
                r.out)

\* Map that never falls through to _map once a preferred mapper is set
HTMLTemplateMapper_Map_PreferredOnly(h, input, fuel) ==
    IF fuel = 0 THEN Panic(h, "stack overflow")
    ELSE IF h.preferred # nil
    THEN MapReturn(Return(h, MapperMap(h.preferred, input)), input, h, TRUE, fuel)
    ELSE MapReturn(HTMLTemplateMapper_map(h, input, fuel - 1), input,
                   h, FALSE, fuel)

\* func (h *HTMLTemplateMapper) Map(input string) string; fuel is the
\* number of nested Map calls the stack still has room for
HTMLTemplateMapper_Map(h, input, fuel) ==
    IF fuel = 0 THEN Panic(h, "stack overflow")
    ELSE IF h.preferred # nil /\ MapperMap(h.preferred, input) # <<>>
    THEN MapReturn(Return(h, MapperMap(h.preferred, input)), input, h, TRUE, fuel)
    ELSE MapReturn(HTMLTemplateMapper_map(h, input, fuel - 1), input,
                   h, FALSE, fuel)

----------------------------------------------------------------------------
(* The registry as a state machine *)

\* func (h *HTMLTemplate) NewMapper(m) on a HTMLTemplate with cache rsm
NewMapper(rsm, m) ==
    [rsm |-> rsm, readers |-> 0, m |-> m, preferred |-> nil, indexes |-> <<>>,
     depth |-> 0, fault |-> NoFault, trace |-> <<>>]

\* the mappers registered in the model
RegistryMappers == {Self(<<"s">>), String(<<"v">>)}

\* New(): an empty registry
InitRegistry ==
    /\ mp = [p \in {} |-> nil]
    /\ first = [p \in {} |-> nil]
    /\ regOp = [op |-> "New"]
    /\ tm = NewMapper([name \in {} |-> <<>>], [name \in {} |-> nil])
    /\ calls = <<>>
    /\ cc = NotStarted /\ ht = NotStarted /\ rn = NotStarted
    /\ tl = NotStarted /\ rs = NotStarted
    /\ sp = NotStarted

\* a call of Add
AddCall(prefix, mapper) ==
    LET r == map_Add(mp, prefix, mapper) IN
    /\ mp' = r.mp
    /\ first' = IF r.err = NoError /\ prefix \notin DOMAIN first
                THEN [p \in DOMAIN first \cup {prefix} |->
                         IF p = prefix THEN mapper ELSE first[p]]
                ELSE first
    /\ regOp' = [op |-> "Add", prefix |-> prefix, mapper |-> mapper,
                 before |-> mp, err |-> r.err]
    /\ UNCHANGED <<engineVars, cc, ht, rn, tl, rs, sp>>

\* a call of Map
MapCall(input) ==
    LET r == map_Map(mp, input) IN
    /\ regOp' = [op |-> "Map", input |-> input, out |-> r.out, calls |-> r.calls]
    /\ UNCHANGED <<mp, first>>
    /\ UNCHANGED <<engineVars, cc, ht, rn, tl, rs, sp>>

NextRegistry ==
    \/ \E prefix \in Prefixes, mapper \in RegistryMappers : AddCall(prefix, mapper)
    \/ \E input \in RegistryInputs : MapCall(input)

SpecRegistry == InitRegistry /\ [][NextRegistry]_vars

----------------------------------------------------------------------------
(* The template mapper as a state machine *)

Digits == <<"0", "1", "2", "3", "4", "5", "6", "7", "8", "9">>

\* the k-th company of a collection, k counted from 0
CompanyNo(k) == Company(<<"C", Digits[k + 1]>>)

\* the k-th user, with k % 2 + 1 companies of their own
UserNo(k) ==
    User(<<"F", Digits[k + 1]>>, <<"L", Digits[k + 1]>>, <<Digits[k + 1]>>,
         Companies([j \in 1..((k % 2) + 1) |->
                       Company(<<"U", Digits[k + 1], Digits[j]>>)]))

\* no binding at all
NoBindings == [name \in {} |-> nil]

\* the bindings of a request whose collections have n elements
SomeBindings(n) ==
    [name \in {<<"x">>, <<"u", "s", "e", "r", "s">>, <<"s">>, <<"i", "n", "c">>, <<"g", "o", "n", "e">>} |->
        CASE name = <<"x">> -> Companies([k \in 1..n |-> CompanyNo(k - 1)])
          [] name = <<"u", "s", "e", "r", "s">> -> Users([k \in 1..n |-> UserNo(k - 1)])
          [] name = <<"s">> -> String(<<"<", "&", ">">>)
          [] name = <<"i", "n", "c">> -> String(<<"t">>)
          [] name = <<"g", "o", "n", "e">> -> String(<<"m", "i", "s", "s", "i", "n", "g">>)]

\* the bindings maps a mapper is made for
BindingsChoices == {NoBindings} \cup {SomeBindings(n) : n \in 0..MaxLen}

\* the parsed templates of the cache
Templates ==
    [name \in {<<"t">>, <<"e", "n", "c">>, <<"o", "u", "t", "e", "r">>, <<"r", "o", "w">>, <<"l", "o", "o", "p">>, <<"b", "a", "d">>} |->
        CASE name = <<"t">> -> <<[type |-> "ph", s |-> <<"n", "a", "m", "e">>], [type |-> "lit", s |-> <<";">>]>>
          [] name = <<"e", "n", "c">> -> <<[type |-> "lit", s |-> <<"A">>], [type |-> "ph", s |-> <<"-", "e", "a", "c", "h", " ", "b", " ", "t">>], [type |-> "lit", s |-> <<"B">>]>>
          [] name = <<"o", "u", "t", "e", "r">> -> <<[type |-> "ph", s |-> <<"-", "e", "a", "c", "h", " ", "x", " ", "t">>], [type |-> "lit", s |-> <<"|">>], [type |-> "ph", s |-> <<"-", "r", "e", "q", "u", "i", "r", "e", " ", "t">>], [type |-> "ph", s |-> <<"s">>]>>
          [] name = <<"r", "o", "w">> -> <<[type |-> "ph", s |-> <<"f", "i", "r", "s", "t", "n", "a", "m", "e">>], [type |-> "ph", s |-> <<"-", "e", "a", "c", "h", " ", "x", " ", "t">>], [type |-> "ph", s |-> <<"l", "a", "s", "t", "n", "a", "m", "e">>]>>
          [] name = <<"l", "o", "o", "p">> -> <<[type |-> "ph", s |-> <<"-", "r", "e", "q", "u", "i", "r", "e", " ", "l", "o", "o", "p">>]>>
          [] name = <<"b", "a", "d">> -> <<[type |-> "ph", s |-> <<"-", "e", "a", "c", "h", " ", "x", ".", "y", " ", "t">>]>>]

\* the caches a mapper is made for
CacheChoices == {Templates, [name \in {} |-> <<>>]}

\* the placeholders handed to Map
Expressions ==
    {<<>>, <<"-">>, <<"s">>, <<"-", "j", "s", " ", "s">>, <<"-", "u", "r", "l", " ", "s">>, <<"-", "r", "a", "w", " ", "s">>, <<"-", "h", "t", "m", "l", " ", "s">>, <<"-", "i", "n", "c", "l", "u", "d", "e", " ", "i", "n", "c">>, <<"-", "i", "n", "c", "l", "u", "d", "e", " ", "g", "o", "n", "e">>, <<"-", "r", "e", "q", "u", "i", "r", "e", " ", "t">>,
     <<"-", "r", "e", "q", "u", "i", "r", "e", " ", "m", "i", "s", "s", "i", "n", "g">>, <<"-", "r", "e", "q", "u", "i", "r", "e", " ", "e", "n", "c">>, <<"-", "r", "e", "q", "u", "i", "r", "e", " ", "o", "u", "t", "e", "r">>, <<"-", "r", "e", "q", "u", "i", "r", "e", " ", "l", "o", "o", "p">>, <<"-", "r", "e", "q", "u", "i", "r", "e">>, <<"-", "e", "a", "c", "h">>, <<"-", "e", "a", "c", "h", " ", "x">>, <<"-", "e", "a", "c", "h", " ", "x", " ", "t">>, <<"-", "e", "a", "c", "h", " ", "x", " ", "m", "i", "s", "s", "i", "n", "g">>, <<"-", "e", "a", "c", "h", " ", "b", " ", "t">>,
     <<"-", "e", "a", "c", "h", " ", "x", ".", "y", " ", "t">>, <<"-", "e", "a", "c", "h", " ", "u", "s", "e", "r", "s", " ", "r", "o", "w">>, <<"-", "e", "a", "c", "h", " ", "u", "s", "e", "r", "s", ".", "c", "o", "m", "p", "a", "n", "i", "e", "s", " ", "t">>, <<"-", "e", "a", "c", "h", " ", "s", " ", "t">>, <<"-", "e", "a", "c", "h", " ", "b", ".", "y", " ", "t">>,
     <<"-", "e", "a", "c", "h", " ", "x", " ", "e", "n", "c">>, <<"-", "r", "e", "q", "u", "i", "r", "e", " ", "b", "a", "d">>,
     <<"-", "e", "a", "c", "h", " ", "x", ".", "y", ".", "z", " ", "t">>,
     <<"-", "e", "a", "c", "h", " ", "u", "s", "e", "r", "s", ".", "c", "o", "m", "p", "a", "n", "i", "e", "s", ".", "y", " ", "t">>}

\* the mapper NewMapper returns for some cache and some bindings map; the
\* registry is not used
InitEngine ==
    /\ \E rsm \in CacheChoices, m \in BindingsChoices : tm = NewMapper(rsm, m)
    /\ calls = <<>>
    /\ mp = [p \in {} |-> nil]
    /\ first = [p \in {} |-> nil]
    /\ regOp = [op |-> "New"]
    /\ cc = NotStarted /\ ht = NotStarted /\ rn = NotStarted
    /\ tl = NotStarted /\ rs = NotStarted
    /\ sp = NotStarted

\* a top-level call tm.Map(input)
TemplateMapCall(input) ==
    /\ tm.fault = NoFault
    /\ Len(calls) < MaxCalls
    /\ LET r == HTMLTemplateMapper_Map([tm EXCEPT !.trace = <<>>], input, MaxStack) IN
       /\ tm' = r.h
       /\ calls' = Append(calls, [input |-> input,
                                  out |-> IF Panicked(r) THEN <<>> ELSE r.out,
                                  fault |-> r.h.fault,
                                  before |-> RenderState(tm),
                                  after |-> RenderState(r.h)])
    /\ UNCHANGED <<regVars, cc, ht, rn, tl, rs, sp>>

NextEngine == \E input \in Expressions : TemplateMapCall(input)

SpecEngine == InitEngine /\ [][NextEngine]_vars

----------------------------------------------------------------------------
(* Claims about the registry, checked under SpecRegistry *)

\* the input "-" + p + " " + name
PrefixedInput(p, name) == <<"-">> \o p \o <<" ">> \o name

\* the last call was Map("-" + p + " " + name) for a valid, registered p
MappedThrough(p, name) ==
    /\ regOp.op = "Map"
    /\ regOp.input = PrefixedInput(p, name)
    /\ p \in Seq(LowerLetters) \ {<<>>}
    /\ p \in DOMAIN first

\* name without the white space before its first and after its last
\* character that is not white space
Stripped(name) ==
    LET inner == {i \in 1..Len(name) : name[i] \notin WhiteSpace} IN
    IF inner = {} THEN <<>>
    ELSE SubSeq(name, CHOOSE i \in inner : \A j \in inner : i <= j,
                      CHOOSE i \in inner : \A j \in inner : i >= j)

\* C3 as stated: after a successful Add(p, v) for a prefix p matching
\* ^[a-z]+$, Map("-" + p + " " + name) returns exactly v.Map(name): the
\* mapper receives the name unchanged.
C3_MapperReceivesNameUnchanged ==
    \A p \in Prefixes, name \in Names :
        MappedThrough(p, name) =>
            /\ regOp.out = MapperMap(first[p], name)
            /\ regOp.calls = <<[mapper |-> first[p], arg |-> name]>>

\* C3 as amended: after a successful Add(p, v) for a prefix p matching
\* ^[a-z]+$, Map("-" + p + " " + name) returns exactly v.Map(t), where t is
\* name without its leading and trailing white space; v receives name
\* unchanged exactly when name has no surrounding white space.
C3_MapperReceivesTrimmedName ==
    \A p \in Prefixes, name \in Names :
        MappedThrough(p, name) =>
            LET t == Stripped(name)
            IN  /\ regOp.out = MapperMap(first[p], t)
                /\ regOp.calls = <<[mapper |-> first[p], arg |-> t]>>

\* a Map through a registered prefix of a name with white space around it,
\* answered by a mapper whose result shows the name it received
C3_Witness ==
    \E p \in Prefixes, name \in Names :
        /\ MappedThrough(p, name)
        /\ name # <<>> /\ name[1] \in WhiteSpace /\ name[Len(name)] \notin WhiteSpace
        /\ first[p].kind = "Self"
        /\ regOp.out # <<>>

C5_OnlyValidPrefixes ==
    /\ (/\ regOp.op = "Add" /\ regOp.prefix # <<>>
         /\ regOp.prefix \notin Seq(LowerLetters)) =>
            /\ regOp.err = ErrInvalidPrefix
            /\ mp = regOp.before
    /\ \A k \in DOMAIN mp : k \in Seq(LowerLetters)

\* an Add with an invalid prefix has been answered on a non-empty registry
C5_Witness ==
    /\ regOp.op = "Add"
    /\ regOp.prefix = <<"a", "A">>
    /\ regOp.err = ErrInvalidPrefix
    /\ DOMAIN mp # {}

\* C6: in every registry state, Map("") and Map("-") return the empty
\* string without calling any mapper.
C6_EmptyInputsMapToEmpty ==
    (regOp.op = "Map" /\ regOp.input \in {<<>>, <<"-">>}) =>
        /\ regOp.out = <<>>
        /\ regOp.calls = <<>>

\* Map("-") has been answered while a default mapper with a non-empty
\* result for the empty name is registered
C6_Witness ==
    /\ regOp.op = "Map"
    /\ regOp.input = <<"-">>
    /\ <<>> \in DOMAIN mp
    /\ MapperMap(mp[<<>>], <<>>) # <<>>

----------------------------------------------------------------------------
(* Claims about the template mapper, checked under SpecEngine *)

\* the placeholder "-each " + name + " " + inc
EachInput(name, inc) == <<"-", "e", "a", "c", "h", " ">> \o name \o <<" ">> \o inc

\* the placeholder "-require " + name
RequireInput(name) == <<"-", "r", "e", "q", "u", "i", "r", "e", " ">> \o name

\* the placeholder "-include " + name
IncludeInput(name) == <<"-", "i", "n", "c", "l", "u", "d", "e", " ">> \o name

\* names of bindings, bound in some bindings map or in none
BindingNames == {<<"x">>, <<"u", "s", "e", "r", "s">>, <<"s">>, <<"b">>, <<"i", "n", "c">>, <<"g", "o", "n", "e">>}

\* dotted paths below a binding
SubPaths ==
    {<<"y">>, <<"c", "o", "m", "p", "a", "n", "i", "e", "s">>, <<"y", ".", "z">>,
     <<"c", "o", "m", "p", "a", "n", "i", "e", "s", ".", "y">>}

\* names of templates, cached in some cache or in none
TemplateNames ==
    {<<"t">>, <<"e", "n", "c">>, <<"o", "u", "t", "e", "r">>, <<"r", "o", "w">>, <<"l", "o", "o", "p">>,
     <<"b", "a", "d">>, <<"m", "i", "s", "s", "i", "n", "g">>}

\* the events of kind ev in the record of the last top-level call
Events(ev) == {e \in {tm.trace[i] : i \in 1..Len(tm.trace)} : e.ev = ev}

\* the Map calls of the record that the preferred mapper did not answer
MapEvents == {e \in Events("Map") : ~e.shadowed}

\* the text that rendering t once per element of nm writes, each element
\* in turn being the preferred mapper, in ascending order
RECURSIVE RenderedInOrder(_, _, _, _)
RenderedInOrder(hh, t, nm, i) ==
    IF i >= NMapperLen(nm) THEN <<>>
    ELSE ReplaceMapper([hh EXCEPT !.preferred = NMap(nm, i, <<>>)], t, MaxStack).out
             \o RenderedInOrder(hh, t, nm, i + 1)

\* C1: for a binding x that is a collection of n leaf elements and a cached
\* template t, Map("-each x t") returns exactly the concatenation of n
\* renders of t, the k-th with element k-1 as preferred mapper, in ascending
\* order and each element once; the empty string for n = 0.
C1_EachRendersEachElementOnce ==
    \A k \in 1..Len(calls), name \in {<<"x">>},
       inc \in {<<"t">>, <<"r", "o", "w">>, <<"e", "n", "c">>} :
        (/\ calls[k].input = EachInput(name, inc)
         /\ name \in DOMAIN tm.m
         /\ inc \in DOMAIN tm.rsm) =>
            /\ calls[k].fault = NoFault
            /\ calls[k].out =
                   RenderedInOrder(NewMapper(tm.rsm, tm.m), tm.rsm[inc], tm.m[name], 0)

\* C2: Map never aborts the render: no placeholder, bindings map and cache
\* brings it to a run-time panic.
C2_MapNeverPanics == tm.fault = NoFault

\* the binding that the each directive looks up for name
BindingOf(name) ==
    IF IndexRune(name, ".") = -1 THEN name ELSE Slice(name, 0, IndexRune(name, "."))

\* C7: Map("-each b t") where b is not bound returns the empty string, and
\* the render of the enclosing template goes on with the placeholders and
\* the text that follow.
C7_EachOfUnboundIsEmpty ==
    /\ \A e \in MapEvents :
           \A name \in BindingNames \cup {n \o <<".">> \o p : n \in BindingNames, p \in SubPaths},
              inc \in TemplateNames :
               (e.input = EachInput(name, inc) /\ BindingOf(name) \notin DOMAIN tm.m)
                   => e.out = <<>>
    /\ \A k \in 1..Len(calls) :
           (calls[k].input = RequireInput(<<"e", "n", "c">>) /\ <<"e", "n", "c">> \in DOMAIN tm.rsm) =>
               /\ calls[k].fault = NoFault
               /\ calls[k].out = <<"A", "B">>

\* the template enc, whose each names an unbound b between two texts, has
\* been rendered for a mapper with other bindings
C7_Witness ==
    /\ Len(calls) >= 1
    /\ calls[Len(calls)].input = RequireInput(<<"e", "n", "c">>)
    /\ calls[Len(calls)].out = <<"A", "B">>
    /\ <<"x">> \in DOMAIN tm.m
    /\ \E e \in MapEvents : e.input = EachInput(<<"b">>, <<"t">>) /\ e.out = <<>>

\* C8: when the named template is not in the cache, require, each over a
\* bound collection and include of a binding whose value names the
\* template all give the empty string.
C8_AbsentTemplateIsEmpty ==
    \A e \in MapEvents, inc \in TemplateNames :
        inc \notin DOMAIN tm.rsm =>
            /\ e.input = RequireInput(inc) => e.out = <<>>
            /\ \A name \in BindingNames \cup
                           {n \o <<".">> \o p : n \in BindingNames, p \in SubPaths} :
                   (/\ e.input = EachInput(name, inc)
                    /\ BindingOf(name) \in DOMAIN tm.m
                    /\ IsNMapper(tm.m[BindingOf(name)])) => e.out = <<>>
            /\ \A name \in BindingNames :
                   (/\ e.input = IncludeInput(name)
                    /\ name \in DOMAIN tm.m
                    /\ MapperMap(tm.m[name], name) = inc) => e.out = <<>>

\* an each over a bound collection with elements has named an absent
\* template, in a cache that holds other templates
C8_Witness ==
    /\ <<"t">> \in DOMAIN tm.rsm
    /\ <<"x">> \in DOMAIN tm.m
    /\ NMapperLen(tm.m[<<"x">>]) >= 1
    /\ \E e \in MapEvents : e.input = EachInput(<<"x">>, <<"m", "i", "s", "s", "i", "n", "g">>) /\ e.out = <<>>

\* C9: require is idempotent: two consecutive Map("-require t") calls for a
\* cached template t return the same output, and a call leaves preferred,
\* depth and indexes as it found them.
C9_RequireIsIdempotent ==
    \A k \in 1..Len(calls), name \in TemplateNames :
        (/\ calls[k].input = RequireInput(name)
         /\ name \in DOMAIN tm.rsm
         /\ calls[k].fault = NoFault) =>
            /\ calls[k].after = calls[k].before
            /\ (k < Len(calls) /\ calls[k + 1].input = calls[k].input) =>
                   /\ calls[k + 1].fault = NoFault
                   /\ calls[k + 1].out = calls[k].out

\* the template outer, with an each, a require and a plain placeholder, has
\* been required twice and has written text
C9_Witness ==
    /\ Len(calls) = 2
    /\ calls[1].input = RequireInput(<<"o", "u", "t", "e", "r">>)
    /\ calls[2].input = RequireInput(<<"o", "u", "t", "e", "r">>)
    /\ <<"x">> \in DOMAIN tm.m
    /\ NMapperLen(tm.m[<<"x">>]) >= 2
    /\ Len(calls[2].out) > Len(HTMLEscapeString(<<"<", "&", ">">>)) + 1

\* C10: during an each expansion, in the loop of _map and in replaceVars,
\* NMap(i, sub) is only called on a collection with 0 <= i < Len() of that
\* collection.
C10_NMapWithinLen ==
    \A e \in Events("NMap") : 0 <= e.i /\ e.i < NMapperLen(e.nm)

\* an expansion has reached the last element of a nested collection from
\* replaceVars, and the last element of the outer collection from the loop
C10_Witness ==
    /\ \E e \in Events("NMap") :
           /\ e.by = "replaceVars" /\ e.nm.kind = "Companies" /\ e.sub = <<"c", "o", "m", "p", "a", "n", "i", "e", "s">>
           /\ e.i = NMapperLen(e.nm) - 1 /\ e.i >= 1
    /\ \E e \in Events("NMap") :
           /\ e.by = "each" /\ e.nm.kind = "Users"
           /\ e.i = NMapperLen(e.nm) - 1 /\ e.i >= 1

\* the dotted path after the binding that the each directive looks up
SubOf(name) ==
    IF IndexRune(name, ".") = -1 THEN <<>>
    ELSE Slice(name, IndexRune(name, ".") + 1, Len(name))

\* names an each directive can be given: bindings, with or without a path
EachTargets == BindingNames \cup {n \o <<".">> \o p : n \in BindingNames, p \in SubPaths}

\* the each directive over name meets a structure it does not fit: the
\* binding is no collection, or the path asks for collections below
\* elements that have none
StructuralMismatch(name) ==
    /\ BindingOf(name) \in DOMAIN tm.m
    /\ IF ~IsNMapper(tm.m[BindingOf(name)]) THEN TRUE
       ELSE /\ SubOf(name) # <<>>
            /\ NMapperLen(tm.m[BindingOf(name)]) >= 1
            /\ ~IsNMapper(NMap(tm.m[BindingOf(name)], 0, SubOf(name)))

\* C14: an each directive whose bound target is no collection, or whose
\* dotted path does not fit the nesting met, gives a non-empty diagnostic
\* string, and the render goes on.
C14_MismatchGivesDiagnostic ==
    \A k \in 1..Len(calls), name \in EachTargets, inc \in TemplateNames :
        (/\ calls[k].input = EachInput(name, inc)
         /\ inc \in DOMAIN tm.rsm
         /\ StructuralMismatch(name)) =>
            /\ calls[k].fault = NoFault
            /\ calls[k].out # <<>>

\* C17: every top-level render ends and gives output, whatever the cache
\* holds: also for a template that requires or each-expands itself.
C17_RenderTerminates ==
    \A k \in 1..Len(calls) : calls[k].fault # "stack overflow"

\* what _map gives for the call recorded as e, from the state e was made in
Dispatch(e) ==
    HTMLTemplateMapper_map([tm EXCEPT !.preferred = e.entry.preferred,
                                      !.indexes = e.entry.indexes,
                                      !.depth = e.entry.depth,
                                      !.fault = NoFault,
                                      !.trace = <<>>],
                           e.input, e.fuel - 1)

\* C18: with a preferred mapper set, Map(expression) returns
\* preferred.Map(expression) as it is whenever that is not empty, and
\* otherwise what _map returns for the expression; with none set, Map is
\* _map.
C18_PreferredShadows ==
    \A e \in Events("Map") :
        IF e.preferred # nil /\ MapperMap(e.preferred, e.input) # <<>>
        THEN /\ e.out = MapperMap(e.preferred, e.input)
             /\ e.exit = e.entry
        ELSE e.out = Dispatch(e).out

\* a user has answered "firstname" as the preferred mapper, and the each
\* placeholder it left unanswered was expanded from the outer bindings
C18_Witness ==
    /\ \E e \in Events("Map") :
           /\ e.preferred # nil /\ e.preferred.kind = "User"
           /\ e.input = <<"f", "i", "r", "s", "t", "n", "a", "m", "e">>
           /\ e.out = e.preferred.Firstname /\ e.out # <<>>
    /\ \E e \in Events("Map") :
           /\ e.preferred # nil /\ e.preferred.kind = "User"
           /\ e.input = EachInput(<<"x">>, <<"t">>)
           /\ e.out # <<>>
    /\ \E e \in Events("Map") : e.preferred = nil /\ e.out # <<>>

\* the path below the first segment of sub
RemainingPath(sub) == SubOf(sub)

\* C19: when NMap(i, subPath) returns a collection, the expansion of that
\* collection calls NMap with the path that remains below the first
\* segment of subPath.
C19_NestedLevelGetsRemainingPath ==
    \A j \in 1..(Len(tm.trace) - 1) :
        (/\ tm.trace[j].ev = "NMap" /\ tm.trace[j + 1].ev = "NMap"
         /\ tm.trace[j].by = "each" /\ tm.trace[j + 1].by = "replaceVars"
         /\ IsNMapper(NMap(tm.trace[j].nm, tm.trace[j].i, tm.trace[j].sub))
         /\ tm.trace[j + 1].nm = NMap(tm.trace[j].nm, tm.trace[j].i, tm.trace[j].sub)) =>
            tm.trace[j + 1].sub = RemainingPath(tm.trace[j].sub)

\* C20: whenever Map returns, indexes and depth are what they were when it
\* was called, and depth = len(indexes) before and after every Map call;
\* both are 0 and empty between top-level placeholders.
C20_DepthStackBalanced ==
    /\ \A e \in Events("Map") :
           /\ e.exit.depth = e.entry.depth
           /\ e.exit.indexes = e.entry.indexes
           /\ e.entry.depth = Len(e.entry.indexes)
    /\ \A k \in 1..Len(calls) :
           calls[k].fault = NoFault =>
               calls[k].after.depth = 0 /\ calls[k].after.indexes = <<>>


----------------------------------------------------------------------------
(* The registry that is safe for concurrent use: type _map_concurrent *)

\* goroutines that call the registry, each making one call
NumGoroutines == 2

Goroutines == 1..NumGoroutines

\* the calls the goroutines make
ConcurrentCalls ==
    {[op |-> "Add", prefix |-> p, mapper |-> m] :
         p \in {<<"a">>, <<"A">>}, m \in RegistryMappers}
        \cup {[op |-> "Map", input |-> i] : i \in {<<"-", "a", " ", "n">>, <<"n">>}}

\* mp[prefix] = mapper
MapStore(reg, prefix, mapper) ==
    [p \in DOMAIN reg \cup {prefix} |-> IF p = prefix THEN mapper ELSE reg[p]]

\* a sync.RWMutex that lets every goroutine in
Free_Always(writer, readers) == TRUE

\* sync.RWMutex.Lock() can return: no writer and no reader holds the lock
CanLock(writer, readers) == writer = 0 /\ readers = 0

\* sync.RWMutex.RLock() can return: no writer holds the lock
CanRLock(writer, readers) == writer = 0

\* NewConcurrent(), and goroutines that have not called yet
InitConcurrent ==
    /\ cc = [m |-> [p \in {} |-> nil], writer |-> 0, readers |-> 0,
             pc |-> [g \in Goroutines |-> "idle"],
             call |-> [g \in Goroutines |-> [op |-> "none"]],
             err |-> [g \in Goroutines |-> NoError],
             res |-> [g \in Goroutines |-> [op |-> "none"]]]
    /\ mp = [p \in {} |-> nil]
    /\ first = [p \in {} |-> nil]
    /\ regOp = [op |-> "New"]
    /\ tm = NewMapper([name \in {} |-> <<>>], [name \in {} |-> nil])
    /\ calls = <<>>
    /\ ht = NotStarted /\ rn = NotStarted /\ tl = NotStarted /\ rs = NotStarted
    /\ sp = NotStarted

\* goroutine g calls c.Add or c.Map
ConcCall(g, call) ==
    /\ cc.pc[g] = "idle"
    /\ cc' = [cc EXCEPT !.call[g] = call,
                        !.pc[g] = IF call.op = "Add" THEN "Lock" ELSE "RLock"]
    /\ UNCHANGED <<regVars, engineVars, ht, rn, tl, rs, sp>>

\* c.mx.Lock() of Add
ConcLock(g) ==
    /\ cc.pc[g] = "Lock"
    /\ CanLock(cc.writer, cc.readers)
    /\ cc' = [cc EXCEPT !.writer = g, !.pc[g] = "check"]
    /\ UNCHANGED <<regVars, engineVars, ht, rn, tl, rs, sp>>

\* c.m.Add up to its decision: the prefix rule and the lookup of the prefix
ConcAddCheck(g) ==
    /\ cc.pc[g] = "check"
    /\ cc' = [cc EXCEPT !.err[g] = map_Add(cc.m, cc.call[g].prefix,
                                           cc.call[g].mapper).err,
                        !.pc[g] = "store"]
    /\ UNCHANGED <<regVars, engineVars, ht, rn, tl, rs, sp>>

\* c.m.Add from its decision on: mp[prefix] = mapper unless it returns an
\* error
ConcAddStore(g) ==
    /\ cc.pc[g] = "store"
    /\ cc' = [cc EXCEPT !.m = IF cc.err[g] = NoError
                              THEN MapStore(@, cc.call[g].prefix, cc.call[g].mapper)
                              ELSE @,
                        !.pc[g] = "Unlock"]
    /\ UNCHANGED <<regVars, engineVars, ht, rn, tl, rs, sp>>

\* c.mx.Unlock() and the return of Add
ConcUnlock(g) ==
    /\ cc.pc[g] = "Unlock"
    /\ cc' = [cc EXCEPT !.writer = IF @ = g THEN 0 ELSE @,
                        !.res[g] = [op |-> "Add", err |-> cc.err[g]],
                        !.pc[g] = "done"]
    /\ UNCHANGED <<regVars, engineVars, ht, rn, tl, rs, sp>>

\* c.mx.RLock() of Map
ConcRLock(g) ==
    /\ cc.pc[g] = "RLock"
    /\ CanRLock(cc.writer, cc.readers)
    /\ cc' = [cc EXCEPT !.readers = @ + 1, !.pc[g] = "map"]
    /\ UNCHANGED <<regVars, engineVars, ht, rn, tl, rs, sp>>

\* res := c.m.Map(input)
ConcMap(g) ==
    /\ cc.pc[g] = "map"
    /\ cc' = [cc EXCEPT !.res[g] = [op |-> "Map",
                                    out |-> map_Map(cc.m, cc.call[g].input).out],
                        !.pc[g] = "RUnlock"]
    /\ UNCHANGED <<regVars, engineVars, ht, rn, tl, rs, sp>>

\* c.mx.RUnlock() and the return of Map
ConcRUnlock(g) ==
    /\ cc.pc[g] = "RUnlock"
    /\ cc' = [cc EXCEPT !.readers = @ - 1, !.pc[g] = "done"]
    /\ UNCHANGED <<regVars, engineVars, ht, rn, tl, rs, sp>>

NextConcurrent ==
    \/ \E g \in Goroutines, call \in ConcurrentCalls : ConcCall(g, call)
    \/ \E g \in Goroutines : ConcLock(g)
    \/ \E g \in Goroutines : ConcAddCheck(g)
    \/ \E g \in Goroutines : ConcAddStore(g)
    \/ \E g \in Goroutines : ConcUnlock(g)
    \/ \E g \in Goroutines : ConcRLock(g)
    \/ \E g \in Goroutines : ConcMap(g)
    \/ \E g \in Goroutines : ConcRUnlock(g)

SpecConcurrent == InitConcurrent /\ [][NextConcurrent]_vars

----------------------------------------------------------------------------
(* Claims about the concurrent registry, checked under SpecConcurrent *)

\* the orders in which the calls of the goroutines can be made one by one
Orders == {o \in [1..NumGoroutines -> Goroutines] :
              \A i, j \in 1..NumGoroutines : o[i] = o[j] => i = j}

\* the registry after the first n calls of order o, made one by one
RECURSIVE RegistryAfter(_, _)
RegistryAfter(o, n) ==
    IF n = 0 THEN [p \in {} |-> nil]
    ELSE IF cc.call[o[n]].op = "Add"
    THEN map_Add(RegistryAfter(o, n - 1), cc.call[o[n]].prefix,
                 cc.call[o[n]].mapper).mp
    ELSE RegistryAfter(o, n - 1)

\* what the n-th call of order o returns when the calls are made one by one
SequentialResult(o, n) ==
    IF cc.call[o[n]].op = "Add"
    THEN [op |-> "Add",
          err |-> map_Add(RegistryAfter(o, n - 1), cc.call[o[n]].prefix,
                          cc.call[o[n]].mapper).err]
    ELSE [op |-> "Map",
          out |-> map_Map(RegistryAfter(o, n - 1), cc.call[o[n]].input).out]

\* all goroutines have returned, with the results of some sequential order
\* of their calls and the registry that order leaves
LikeSomeSequentialOrder ==
    (\A g \in Goroutines : cc.pc[g] = "done") =>
        \E o \in Orders :
            /\ \A n \in 1..NumGoroutines : cc.res[o[n]] = SequentialResult(o, n)
            /\ cc.m = RegistryAfter(o, NumGoroutines)

\* Add runs under the write lock and Map under the read lock
HoldsItsLock ==
    \A g \in Goroutines :
        /\ cc.pc[g] \in {"check", "store", "Unlock"} =>
               cc.writer = g /\ cc.readers = 0
        /\ cc.pc[g] \in {"map", "RUnlock"} => cc.writer = 0 /\ cc.readers >= 1

\* the goroutines that have returned from an Add of prefix
Adders(prefix) ==
    {g \in Goroutines : cc.pc[g] = "done" /\ cc.call[g].op = "Add"
                            /\ cc.call[g].prefix = prefix}

\* C12 as stated: every interleaving of Add and Map calls on a registry
\* made by NewConcurrent is like some sequential order of the calls, Add
\* under the write lock and Map under the read lock; of two goroutines that
\* Add the same prefix exactly one gets nil and the other
\* MapperAlreadyExistsError.
C12_OneOfTwoAddsWins ==
    /\ LikeSomeSequentialOrder
    /\ HoldsItsLock
    /\ \A g1, g2 \in Goroutines, prefix \in {<<"a">>, <<"A">>} :
           (g1 # g2 /\ {g1, g2} \subseteq Adders(prefix)) =>
               \E w \in {g1, g2} :
                   /\ cc.res[w].err = NoError
                   /\ \A l \in {g1, g2} \ {w} :
                          cc.res[l].err = MapperAlreadyExistsError(prefix)

\* C12, amended: the same, the last part for a prefix that the registry
\* accepts and does not hold yet: of the goroutines that Add it exactly one
\* gets nil and every other MapperAlreadyExistsError; for a prefix that the
\* prefix rule rejects every Add gets ErrInvalidPrefix.
C12_OneAddOfAValidPrefixWins ==
    /\ LikeSomeSequentialOrder
    /\ HoldsItsLock
    /\ \A prefix \in {<<"a">>, <<"A">>} :
           IF prefixRule(prefix)
           THEN (Adders(prefix) # {} /\ \A g \in Goroutines : cc.pc[g] = "done") =>
                    \E w \in Adders(prefix) :
                        /\ cc.res[w].err = NoError
                        /\ \A l \in Adders(prefix) \ {w} :
                               cc.res[l].err = MapperAlreadyExistsError(prefix)
           ELSE \A g \in Adders(prefix) : cc.res[g].err = ErrInvalidPrefix

\* every goroutine has added the same valid prefix, not all with the same
\* mapper, and all have returned
C12_Witness ==
    /\ Adders(<<"a">>) = Goroutines
    /\ \E g1, g2 \in Goroutines : cc.call[g1].mapper # cc.call[g2].mapper
    /\ \E g \in Goroutines : cc.res[g].err = NoError

----------------------------------------------------------------------------
(* The template cache: NewHTMLTemplate and the lookups of h.rsm *)

\* the sources a ReadSeekerMap can hold when NewHTMLTemplate is called:
\* name -> parsed content
SourceChoices ==
    {[name \in names |-> Templates[name]] :
        names \in SUBSET {<<"t">>, <<"r", "o", "w">>, <<"e", "n", "c">>}}

\* whether code outside NewHTMLTemplate can hold the *HTMLTemplate that
\* is still being filled
Reachable_BeforeReturn(pc) == TRUE

\* whether code outside NewHTMLTemplate can hold the *HTMLTemplate: the
\* only reference is the local h until NewHTMLTemplate returns it
Reachable(pc) == pc = "returned"

\* a ReadSeekerMap with some sources, NewHTMLTemplate(rs) called and h
\* allocated with an empty rsm
InitCache ==
    /\ \E src \in SourceChoices :
           ht = [source |-> src, sourceReaders |-> 0,
                 rsm |-> [name \in {} |-> <<>>],
                 writer |-> 0, readers |-> 0,
                 pc |-> "RLock",
                 at |-> [g \in Goroutines |-> "idle"],
                 lookup |-> [g \in Goroutines |-> [by |-> "none"]],
                 seen |-> [g \in Goroutines |-> [found |-> FALSE]]]
    /\ mp = [p \in {} |-> nil]
    /\ first = [p \in {} |-> nil]
    /\ regOp = [op |-> "New"]
    /\ tm = NewMapper([name \in {} |-> <<>>], [name \in {} |-> nil])
    /\ calls = <<>>
    /\ cc = NotStarted /\ rn = NotStarted /\ tl = NotStarted /\ rs = NotStarted
    /\ sp = NotStarted

\* h.rs.mx.RLock() of NewHTMLTemplate
CacheSourceRLock ==
    /\ ht.pc = "RLock"
    /\ ht' = [ht EXCEPT !.sourceReaders = @ + 1, !.pc = "range"]
    /\ UNCHANGED <<regVars, engineVars, cc, rn, tl, rs, sp>>

\* one pass of the loop over h.rs.m: h.rsm[k] = places.NewTemplate(b)
CacheStore(k) ==
    /\ ht.pc = "range"
    /\ k \in DOMAIN ht.source \ DOMAIN ht.rsm
    /\ ht' = [ht EXCEPT !.rsm = [name \in DOMAIN @ \cup {k} |->
                                    IF name = k THEN ht.source[k] ELSE @[name]]]
    /\ UNCHANGED <<regVars, engineVars, cc, rn, tl, rs, sp>>

\* the end of the loop and h.rs.mx.RUnlock()
CacheSourceRUnlock ==
    /\ ht.pc = "range"
    /\ DOMAIN ht.source \ DOMAIN ht.rsm = {}
    /\ ht' = [ht EXCEPT !.sourceReaders = @ - 1, !.pc = "return"]
    /\ UNCHANGED <<regVars, engineVars, cc, rn, tl, rs, sp>>

\* return h
CacheReturn ==
    /\ ht.pc = "return"
    /\ ht' = [ht EXCEPT !.pc = "returned"]
    /\ UNCHANGED <<regVars, engineVars, cc, rn, tl, rs, sp>>

\* goroutine g, on a mapper of h, comes to look up name in h.rsm from
\* require or from the each directive
CacheLookupCall(g, by, name) ==
    /\ Reachable(ht.pc)
    /\ ht.at[g] = "idle"
    /\ ht' = [ht EXCEPT !.at[g] = "RLock", !.lookup[g] = [by |-> by, name |-> name]]
    /\ UNCHANGED <<regVars, engineVars, cc, rn, tl, rs, sp>>

\* h.HTMLTemplate.RLock() before the lookup
CacheLookupRLock(g) ==
    /\ ht.at[g] = "RLock"
    /\ CanRLock(ht.writer, ht.readers)
    /\ ht' = [ht EXCEPT !.readers = @ + 1, !.at[g] = "lookup"]
    /\ UNCHANGED <<regVars, engineVars, cc, rn, tl, rs, sp>>

\* t, ok := h.HTMLTemplate.rsm[name]
CacheLookup(g) ==
    /\ ht.at[g] = "lookup"
    /\ ht' = [ht EXCEPT !.seen[g] = [found |-> ht.lookup[g].name \in DOMAIN ht.rsm,
                                     names |-> DOMAIN ht.rsm,
                                     readers |-> ht.readers,
                                     writer |-> ht.writer],
                        !.at[g] = IF ht.lookup[g].by = "require"
                                  THEN "RUnlock" ELSE "RLock again"]
    /\ UNCHANGED <<regVars, engineVars, cc, rn, tl, rs, sp>>

\* the deferred h.HTMLTemplate.RUnlock() of require
CacheLookupRUnlock(g) ==
    /\ ht.at[g] = "RUnlock"
    /\ ht' = [ht EXCEPT !.readers = @ - 1, !.at[g] = "done"]
    /\ UNCHANGED <<regVars, engineVars, cc, rn, tl, rs, sp>>

\* the second h.HTMLTemplate.RLock() of the each directive
CacheLookupRLockAgain(g) ==
    /\ ht.at[g] = "RLock again"
    /\ CanRLock(ht.writer, ht.readers)
    /\ ht' = [ht EXCEPT !.readers = @ + 1, !.at[g] = "done"]
    /\ UNCHANGED <<regVars, engineVars, cc, rn, tl, rs, sp>>

NextCache ==
    \/ CacheSourceRLock
    \/ \E k \in {<<"t">>, <<"r", "o", "w">>, <<"e", "n", "c">>} : CacheStore(k)
    \/ CacheSourceRUnlock
    \/ CacheReturn
    \/ \E g \in Goroutines, by \in {"require", "each"},
          name \in {<<"t">>, <<"m", "i", "s", "s", "i", "n", "g">>} :
           CacheLookupCall(g, by, name)
    \/ \E g \in Goroutines : CacheLookupRLock(g)
    \/ \E g \in Goroutines : CacheLookup(g)
    \/ \E g \in Goroutines : CacheLookupRUnlock(g)
    \/ \E g \in Goroutines : CacheLookupRLockAgain(g)

SpecCache == InitCache /\ [][NextCache]_vars

----------------------------------------------------------------------------
(* Claims about the template cache, checked under SpecCache *)

\* NewHTMLTemplate is writing h.rsm
Populating == ht.pc = "range"

\* every lookup made so far was made with the cache's lock held in reader
\* mode, and found all the sources in the cache
LookupsUnderReadLock ==
    \A g \in Goroutines :
        /\ ht.at[g] \in {"lookup", "RUnlock", "RLock again"} => ht.readers >= 1
        /\ ht.at[g] \in {"RUnlock", "RLock again", "done"} =>
               /\ ht.seen[g].readers >= 1
               /\ ht.seen[g].writer = 0
               /\ ht.seen[g].names = DOMAIN ht.source
               /\ ht.seen[g].found = (ht.lookup[g].name \in DOMAIN ht.source)

----------------------------------------------------------------------------
(* Two renders on two HTMLTemplateMappers of one HTMLTemplate *)

\* the two goroutines that render, each with a mapper of its own
Renders == {1, 2}

\* the bindings map of render w, with a collection of n elements: the
\* maps of the two renders are different maps with different values
BindingsOf(w, n) ==
    [name \in {<<"x">>, <<"s">>} |->
        IF name = <<"x">>
        THEN Companies([k \in 1..n |->
                 Company(<<IF w = 1 THEN "C" ELSE "D", Digits[k]>>)])
        ELSE String(<<IF w = 1 THEN "c" ELSE "d">>)]

\* the placeholders the renders resolve
RenderInputs ==
    {<<"-", "e", "a", "c", "h", " ", "x", " ", "t">>, <<"-", "e", "a", "c", "h", " ", "x", " ", "e", "n", "c">>,
     <<"-", "e", "a", "c", "h", " ", "x", " ", "m", "i", "s", "s", "i", "n", "g">>, <<"-", "r", "e", "q", "u", "i", "r", "e", " ", "o", "u", "t", "e", "r">>,
     <<"s">>, <<"-", "e", "a", "c", "h", " ", "s", " ", "t">>,
     <<"-", "e", "a", "c", "h", " ", "x", ".", "y", " ", "t">>}

\* m.NewMapper for both renders returning one and the same mapper
MapperOf_TheSame(w) == 1

\* the HTMLTemplateMapper that render w works on: NewMapper allocates one
\* for every call
MapperOf(w) == w

\* mpName, sub and inc of the each directive with remainder rest
eachArgs(rest) ==
    LET idx == IndexRune(rest, " ")
        name == TrimSpace(Slice(rest, 0, idx))
        dot == IndexRune(name, ".")
    IN  [mpName |-> IF dot = -1 THEN name ELSE Slice(name, 0, dot),
         sub |-> IF dot = -1 THEN <<>> ELSE Slice(name, dot + 1, Len(name)),
         inc |-> TrimSpace(Slice(rest, idx + 1, Len(rest)))]

\* the mapper of render w as its methods see it: its own bindings, the
\* fields of its HTMLTemplateMapper and, through the pointer, the shared
\* HTMLTemplate
View(w) ==
    [rsm |-> rn.rsm, readers |-> rn.readers, m |-> rn.m[w],
     preferred |-> rn.state[MapperOf(w)].preferred,
     indexes |-> rn.state[MapperOf(w)].indexes,
     depth |-> rn.state[MapperOf(w)].depth,
     fault |-> NoFault, trace |-> <<>>]

\* whether Map(input) of render w comes to expand a collection of leaf
\* elements with a cached template
ExpandsLeaves(w, input) ==
    /\ split(input).prefix = <<"e", "a", "c", "h">>
    /\ IndexRune(split(input).rest, " ") # -1
    /\ eachArgs(split(input).rest).mpName \in DOMAIN rn.m[w]
    /\ eachArgs(split(input).rest).inc \in DOMAIN rn.rsm
    /\ IsNMapper(rn.m[w][eachArgs(split(input).rest).mpName])
    /\ eachArgs(split(input).rest).sub = <<>>

\* the collection that render w expands
ExpandedBy(w) == rn.m[w][eachArgs(split(rn.input[w]).rest).mpName]

\* the template that render w expands it with
TemplateOf(w) == rn.rsm[eachArgs(split(rn.input[w]).rest).inc]

\* rn after a step of render w that left the mapper as h
After(w, h) ==
    [rn EXCEPT !.readers = h.readers, !.state[MapperOf(w)] = RenderState(h)]

\* one HTMLTemplate, and two mappers made by NewMapper for two bindings maps
InitRenders ==
    /\ \E n1, n2 \in 1..MaxLen :
           rn = [rsm |-> Templates, readers |-> 0,
                 m |-> [w \in Renders |-> BindingsOf(w, IF w = 1 THEN n1 ELSE n2)],
                 state |-> [w \in Renders |-> RenderState(NewMapper(Templates, NoBindings))],
                 pc |-> [w \in Renders |-> "idle"],
                 input |-> [w \in Renders |-> <<>>],
                 i |-> [w \in Renders |-> 0],
                 bf |-> [w \in Renders |-> <<>>],
                 result |-> [w \in Renders |-> [out |-> <<>>, fault |-> NoFault]]]
    /\ mp = [p \in {} |-> nil]
    /\ first = [p \in {} |-> nil]
    /\ regOp = [op |-> "New"]
    /\ tm = NewMapper([name \in {} |-> <<>>], [name \in {} |-> nil])
    /\ calls = <<>>
    /\ cc = NotStarted /\ ht = NotStarted /\ tl = NotStarted /\ rs = NotStarted
    /\ sp = NotStarted

\* render w calls Map(input) on its mapper
RenderCall(w, input) ==
    /\ rn.pc[w] = "idle"
    /\ rn' = [rn EXCEPT !.input[w] = input,
                        !.pc[w] = IF ExpandsLeaves(w, input) THEN "each" ELSE "Map"]
    /\ UNCHANGED <<regVars, engineVars, cc, ht, tl, rs, sp>>

\* a Map call that expands no collection of leaves, from call to return
RenderMap(w) ==
    /\ rn.pc[w] = "Map"
    /\ LET r == HTMLTemplateMapper_Map(View(w), rn.input[w], MaxStack) IN
       rn' = [After(w, r.h) EXCEPT
                 !.result[w] = [out |-> IF Panicked(r) THEN <<>> ELSE r.out,
                                fault |-> r.h.fault],
                 !.pc[w] = "done"]
    /\ UNCHANGED <<regVars, engineVars, cc, ht, tl, rs, sp>>

\* the each directive up to its loop: the two RLock, h.depth++ and
\* h.indexes = append(h.indexes, NMapper(nil))
RenderEachEnter(w) ==
    /\ rn.pc[w] = "each"
    /\ rn' = [After(w, [RLock(RLock(View(w))) EXCEPT !.depth = @ + 1,
                                                      !.indexes = Append(@, nil)])
                 EXCEPT !.i[w] = 0, !.bf[w] = <<>>, !.pc[w] = "loop"]
    /\ UNCHANGED <<regVars, engineVars, cc, ht, tl, rs, sp>>

\* the head of the loop, and for an element h.preferred = m
RenderEachNext(w) ==
    /\ rn.pc[w] = "loop"
    /\ rn' = IF LoopCondition(rn.i[w], NMapperLen(ExpandedBy(w)))
             THEN [After(w, [View(w) EXCEPT !.preferred = NMap(ExpandedBy(w), rn.i[w], <<>>)])
                      EXCEPT !.pc[w] = "render"]
             ELSE [rn EXCEPT !.pc[w] = "replaceVars"]
    /\ UNCHANGED <<regVars, engineVars, cc, ht, tl, rs, sp>>

\* t.ReplaceMapper(&bf, h) for the element
RenderEachElement(w) ==
    /\ rn.pc[w] = "render"
    /\ LET r == ReplaceMapper(View(w), TemplateOf(w), MaxStack - 1) IN
       rn' = IF Panicked(r)
             THEN [After(w, r.h) EXCEPT !.result[w] = [out |-> <<>>, fault |-> r.h.fault],
                                        !.pc[w] = "done"]
             ELSE [After(w, r.h) EXCEPT !.bf[w] = @ \o r.out, !.pc[w] = "clear"]
    /\ UNCHANGED <<regVars, engineVars, cc, ht, tl, rs, sp>>

\* h.preferred = nil and i++
RenderEachClear(w) ==
    /\ rn.pc[w] = "clear"
    /\ rn' = [After(w, ClearPreferred(View(w))) EXCEPT !.i[w] = @ + 1, !.pc[w] = "loop"]
    /\ UNCHANGED <<regVars, engineVars, cc, ht, tl, rs, sp>>

\* h.replaceVars(&bf, t, nm, sub) after the loop
RenderEachReplaceVars(w) ==
    /\ rn.pc[w] = "replaceVars"
    /\ LET r == replaceVars(View(w), TemplateOf(w), ExpandedBy(w), <<>>, MaxStack - 1) IN
       rn' = IF Panicked(r)
             THEN [After(w, r.h) EXCEPT !.result[w] = [out |-> <<>>, fault |-> r.h.fault],
                                        !.pc[w] = "done"]
             ELSE [After(w, r.h) EXCEPT !.bf[w] = @ \o r.out, !.pc[w] = "leave"]
    /\ UNCHANGED <<regVars, engineVars, cc, ht, tl, rs, sp>>

\* the end of the expansion and return bf.String()
RenderEachLeave(w) ==
    /\ rn.pc[w] = "leave"
    /\ LET r == eachLeave(View(w)) IN
       rn' = [After(w, r.h) EXCEPT
                 !.result[w] = [out |-> IF Panicked(r) THEN <<>> ELSE rn.bf[w],
                                fault |-> r.h.fault],
                 !.pc[w] = "done"]
    /\ UNCHANGED <<regVars, engineVars, cc, ht, tl, rs, sp>>

NextRenders ==
    \/ \E w \in Renders, input \in RenderInputs : RenderCall(w, input)
    \/ \E w \in Renders : RenderMap(w)
    \/ \E w \in Renders : RenderEachEnter(w)
    \/ \E w \in Renders : RenderEachNext(w)
    \/ \E w \in Renders : RenderEachElement(w)
    \/ \E w \in Renders : RenderEachClear(w)
    \/ \E w \in Renders : RenderEachReplaceVars(w)
    \/ \E w \in Renders : RenderEachLeave(w)

SpecRenders == InitRenders /\ [][NextRenders]_vars

----------------------------------------------------------------------------
(* Claims about concurrent renders, checked under SpecRenders *)

\* what Map(input) of render w gives when no other render runs
Alone(w) ==
    LET r == HTMLTemplateMapper_Map(NewMapper(rn.rsm, rn.m[w]), rn.input[w], MaxStack)
    IN  [out |-> IF Panicked(r) THEN <<>> ELSE r.out, fault |-> r.h.fault]

\* C13: two renders that run at the same time on two HTMLTemplateMappers
\* of one HTMLTemplate do not interfere: under every interleaving each
\* gives the output it gives alone, and the preferred, depth and indexes
\* of a mapper are only what its own render made them.
C13_RendersDoNotInterfere ==
    \A w \in Renders :
        /\ rn.pc[w] = "done" => rn.result[w] = Alone(w)
        /\ rn.pc[w] \in {"idle", "Map", "each"} =>
               rn.state[w] = RenderState(NewMapper(rn.rsm, rn.m[w]))
        /\ rn.pc[w] \in {"loop", "render", "clear", "replaceVars", "leave"} =>
               /\ rn.state[w].depth = 1
               /\ rn.state[w].indexes = <<nil>>
        /\ rn.pc[w] = "render" =>
               rn.state[w].preferred = NMap(rn.m[w][<<"x">>], rn.i[w], <<>>)
        /\ rn.pc[w] \in {"loop", "clear", "replaceVars", "leave"} =>
               rn.state[w].preferred \in {nil, NMap(rn.m[w][<<"x">>], rn.i[w], <<>>)}

\* both renders have expanded their collections, the second starting while
\* the first was in its loop, and each has written the names of its own
\* elements only
C13_Witness ==
    /\ rn.pc[1] = "done" /\ rn.pc[2] = "render"
    /\ rn.input[1] = <<"-", "e", "a", "c", "h", " ", "x", " ", "t">>
    /\ rn.input[2] = <<"-", "e", "a", "c", "h", " ", "x", " ", "t">>
    /\ rn.readers >= 3
    /\ Len(rn.result[1].out) >= 6
    /\ \A k \in 1..Len(rn.result[1].out) : rn.result[1].out[k] # "D"
    /\ Len(rn.bf[2]) >= 3
    /\ \A k \in 1..Len(rn.bf[2]) : rn.bf[2][k] # "C"

----------------------------------------------------------------------------
(* TemplateLoader.Load *)

\* most entries of the root directory
MaxFiles == 2

\* what os.Stat finds at rootDir
RootKinds == {"missing", "no access", "file", "dir"}

\* what an entry of the root directory can be.  The k-th entry has the
\* name Digits[k]; filepath.Walk visits the entries in the order of their
\* names.
\*   "html"         a readable file with the extension of the loader
\*   "locked html"  such a file that ioutil.ReadFile cannot read
\*   "txt"          a file with another extension
\*   "dir"          a directory holding one readable file "i.html"
\*   "locked dir"   a directory that cannot be listed
\*   "ignored dir"  a directory whose name matches ignoreDirs, holding a
\*                  file that cannot be read
\*   "none"         no entry of that name
EntryKinds ==
    {"html", "locked html", "txt", "dir", "locked dir", "ignored dir", "none"}

\* the error of a file system call that failed
PathError(path) == [err |-> "PathError", path |-> path]

RootDoesNotExistError == [err |-> "RootDoesNotExistError"]

RootIsNotDirectoryError == [err |-> "RootIsNotDirectoryError"]

\* func (l *TemplateLoader) walk(path, info, err) for a file: m is
\* l.ReadSeekerMap.m, the result its new value and the error that walk
\* returns; path is relative to rootDir, and the content of a file is
\* written as its path
walkFile(kind, path, m) ==
    IF kind = "html"
    THEN [m |-> [n \in DOMAIN m \cup {path} |->
                    IF n \in DOMAIN m THEN m[n] ELSE path], err |-> NoError]
    ELSE IF kind = "locked html" THEN [m |-> m, err |-> PathError(path)]
    ELSE [m |-> m, err |-> NoError]

\* filepath.Walk over the entries from the k-th on, calling l.walk: it ends
\* at the first error that walk returns; filepath.SkipDir skips a directory
RECURSIVE WalkFrom(_, _, _)
WalkFrom(entries, k, m) ==
    IF k > Len(entries) THEN [m |-> m, err |-> NoError]
    ELSE LET name == <<Digits[k]>>
             r == CASE entries[k] \in {"html", "locked html"} ->
                           walkFile(entries[k], name \o <<".", "h", "t", "m", "l">>, m)
                    [] entries[k] = "txt" ->
                           walkFile(entries[k], name \o <<".", "t", "x", "t">>, m)
                    [] entries[k] = "dir" ->
                           walkFile("html", name \o <<"/", "i", ".", "h", "t", "m", "l">>, m)
                    [] entries[k] = "locked dir" -> [m |-> m, err |-> PathError(name)]
                    [] OTHER -> [m |-> m, err |-> NoError]
         IN  IF r.err # NoError THEN r ELSE WalkFrom(entries, k + 1, r.m)

\* func (l *TemplateLoader) Load() (*ReadSeekerMap, error): ok tells
\* whether a map is returned
Load(root, entries) ==
    IF root = "missing" THEN [ok |-> FALSE, m |-> <<>>, err |-> RootDoesNotExistError]
    ELSE IF root = "no access" THEN [ok |-> FALSE, m |-> <<>>, err |-> PathError(<<>>)]
    ELSE IF root = "file" THEN [ok |-> FALSE, m |-> <<>>, err |-> RootIsNotDirectoryError]
    ELSE LET r == WalkFrom(entries, 1, [n \in {} |-> <<>>]) IN
         IF r.err # NoError THEN [ok |-> FALSE, m |-> <<>>, err |-> r.err]
         ELSE [ok |-> TRUE, m |-> r.m, err |-> NoError]

\* NewTemplateLoader(rootDir, ".html", ignoreDirs) for some file system
InitLoader ==
    /\ \E root \in RootKinds, entries \in [1..MaxFiles -> EntryKinds] :
           tl = [root |-> root,
                 entries |-> IF root = "dir" THEN entries
                             ELSE [k \in 1..MaxFiles |-> "none"],
                 returned |-> FALSE,
                 result |-> [ok |-> FALSE, m |-> <<>>, err |-> NoError]]
    /\ mp = [p \in {} |-> nil]
    /\ first = [p \in {} |-> nil]
    /\ regOp = [op |-> "New"]
    /\ tm = NewMapper([name \in {} |-> <<>>], [name \in {} |-> nil])
    /\ calls = <<>>
    /\ cc = NotStarted /\ ht = NotStarted /\ rn = NotStarted /\ rs = NotStarted
    /\ sp = NotStarted

\* a call of l.Load()
LoadCall ==
    /\ ~tl.returned
    /\ tl' = [tl EXCEPT !.returned = TRUE, !.result = Load(tl.root, tl.entries)]
    /\ UNCHANGED <<regVars, engineVars, cc, ht, rn, rs, sp>>

\* the file system changes between two calls of Load: an entry of the root
\* directory is replaced
LoaderTouch(k, kind) ==
    /\ tl.returned
    /\ tl.root = "dir"
    /\ tl.entries[k] # kind
    /\ tl' = [tl EXCEPT !.entries[k] = kind, !.returned = FALSE]
    /\ UNCHANGED <<regVars, engineVars, cc, ht, rn, rs, sp>>

NextLoader ==
    \/ LoadCall
    \/ \E k \in 1..MaxFiles, kind \in EntryKinds : LoaderTouch(k, kind)

SpecLoader == InitLoader /\ [][NextLoader]_vars

----------------------------------------------------------------------------
(* Claims about the loader, checked under SpecLoader *)

\* the paths of the readable files with the loader's extension outside
\* ignored directories
ReadablePaths ==
    {<<Digits[k]>> \o <<".", "h", "t", "m", "l">> :
         k \in {j \in 1..MaxFiles : tl.entries[j] = "html"}}
        \cup {<<Digits[k]>> \o <<"/", "i", ".", "h", "t", "m", "l">> :
                  k \in {j \in 1..MaxFiles : tl.entries[j] = "dir"}}

\* C15: Load returns an error and no map when the root directory does not
\* exist or is no directory; a file that cannot be read does not fail
\* Load: it is left out of the map and all other matching files are loaded.
C15_UnreadableFileIsSkipped ==
    tl.returned =>
        /\ tl.root \in {"missing", "file"} =>
               ~tl.result.ok /\ tl.result.err # NoError
        /\ (/\ tl.root = "dir"
            /\ \A k \in 1..MaxFiles : tl.entries[k] # "locked dir") =>
               /\ tl.result.ok
               /\ tl.result.err = NoError
               /\ DOMAIN tl.result.m = ReadablePaths

----------------------------------------------------------------------------
(* ReadSeekerMap used by several goroutines *)

\* the names that the goroutines add and read
SourceNames == {<<"a">>, <<"b">>}

\* the calls a goroutine can make on the shared *ReadSeekerMap
ReadSeekerCalls ==
    [op : {"Add"}, name : SourceNames, content : {<<"z">>}]
        \cup [op : {"Map"}, name : SourceNames, content : {<<>>}]

ReadSeekerAlreadyExistsError(name) ==
    [err |-> "ReadSeekerAlreadyExistsError", name |-> name]

\* func (r *ReadSeekerMap) Add(name, rs) error, run alone on the map m
ReadSeekerMap_Add(m, name, content) ==
    IF name \in DOMAIN m
    THEN [m |-> m, err |-> ReadSeekerAlreadyExistsError(name)]
    ELSE [m |-> [n \in DOMAIN m \cup {name} |->
                    IF n = name THEN content ELSE m[n]],
          err |-> NoError]

\* func (r *ReadSeekerMap) Map(name) (val string), run alone on the map m:
\* Seek(0, 0) and then ReadAll give the whole content
ReadSeekerMap_Map(m, name) ==
    IF name \in DOMAIN m THEN m[name] ELSE <<>>

\* NewReadSeekerMap(), possibly with one source added, and goroutines that
\* have not called yet.  m0 is the map at the start, kept for the claims;
\* m gives the content of each reader, off the
\* position of each reader (the reader is shared by all calls), readers the
\* holders of mx.RLock; src[g] is the reader that goroutine g found, buf[g]
\* what its ReadAll has read so far.  fault is the fatal error of the Go
\* runtime that ends the process.
InitReadSeeker ==
    /\ \E m \in {[n \in {} |-> <<>>], [n \in {<<"a">>} |-> <<"x", "y">>]} :
           rs = [started |-> TRUE,
                 m0 |-> m,
                 m |-> m,
                 off |-> [n \in SourceNames |-> 0],
                 readers |-> 0,
                 pc |-> [g \in Goroutines |-> "idle"],
                 call |-> [g \in Goroutines |->
                              [op |-> "Map", name |-> <<"a">>, content |-> <<>>]],
                 src |-> [g \in Goroutines |-> <<>>],
                 buf |-> [g \in Goroutines |-> <<>>],
                 res |-> [g \in Goroutines |-> [op |-> "none"]],
                 overlapped |-> FALSE,
                 fault |-> ""]
    /\ mp = [p \in {} |-> nil]
    /\ first = [p \in {} |-> nil]
    /\ regOp = [op |-> "New"]
    /\ tm = NewMapper([name \in {} |-> <<>>], [name \in {} |-> nil])
    /\ calls = <<>>
    /\ cc = NotStarted /\ ht = NotStarted /\ rn = NotStarted /\ tl = NotStarted
    /\ sp = NotStarted

\* another goroutine is inside the assignment r.m[name] = rs
WriteInProgress(g) ==
    \E w \in Goroutines \ {g} : rs.pc[w] = "writing"

\* what a read of r.m[name] by goroutine g can find: without a write in
\* progress the entry of the map; during the write of another goroutine
\* (a data race) the map before or after that write
Found(g, name) ==
    {[ok |-> name \in DOMAIN rs.m,
      src |-> IF name \in DOMAIN rs.m THEN rs.m[name] ELSE <<>>]}
        \cup {[ok |-> TRUE, src |-> rs.call[w].content] :
                  w \in {v \in Goroutines \ {g} :
                            rs.pc[v] = "writing" /\ rs.call[v].name = name}}

\* goroutine g calls r.Add(name, rs) or r.Map(name)
RsCall(g, call) ==
    /\ rs.fault = ""
    /\ rs.pc[g] = "idle"
    /\ rs' = [rs EXCEPT !.call[g] = call,
                        !.pc[g] = IF call.op = "Add" THEN "check" ELSE "rlock"]
    /\ UNCHANGED <<regVars, engineVars, cc, ht, rn, tl, sp>>

\* Add: if _, has := r.m[name]; has { return ReadSeekerAlreadyExistsError }
\* (no lock is taken)
RsAddCheck(g) ==
    /\ rs.fault = ""
    /\ rs.pc[g] = "check"
    /\ \/ \E f \in Found(g, rs.call[g].name) :
              rs' = IF f.ok
                    THEN [rs EXCEPT !.pc[g] = "done",
                                    !.res[g] = [op |-> "Add",
                                                err |-> ReadSeekerAlreadyExistsError(
                                                            rs.call[g].name)]]
                    ELSE [rs EXCEPT !.pc[g] = "store"]
       \/ /\ WriteInProgress(g)
          /\ rs' = [rs EXCEPT !.fault = "concurrent map read and map write"]
    /\ UNCHANGED <<regVars, engineVars, cc, ht, rn, tl, sp>>

\* Add: the assignment r.m[name] = rs begins (no lock is taken)
RsAddStoreBegin(g) ==
    /\ rs.fault = ""
    /\ rs.pc[g] = "store"
    /\ \/ rs' = [rs EXCEPT !.pc[g] = "writing"]
       \/ /\ WriteInProgress(g)
          /\ rs' = [rs EXCEPT !.fault = "concurrent map writes"]
    /\ UNCHANGED <<regVars, engineVars, cc, ht, rn, tl, sp>>

\* Add: the assignment r.m[name] = rs is done; return nil
RsAddStoreEnd(g) ==
    /\ rs.fault = ""
    /\ rs.pc[g] = "writing"
    /\ rs' = [rs EXCEPT !.m = [n \in DOMAIN rs.m \cup {rs.call[g].name} |->
                                  IF n = rs.call[g].name THEN rs.call[g].content
                                  ELSE rs.m[n]],
                        !.off[rs.call[g].name] = 0,
                        !.pc[g] = "done",
                        !.res[g] = [op |-> "Add", err |-> NoError]]
    /\ UNCHANGED <<regVars, engineVars, cc, ht, rn, tl, sp>>

\* Map: r.mx.RLock(); no goroutine ever takes the write lock
RsRLock(g) ==
    /\ rs.fault = ""
    /\ rs.pc[g] = "rlock"
    /\ rs' = [rs EXCEPT !.readers = @ + 1, !.pc[g] = "lookup",
                        !.buf[g] = <<>>]
    /\ UNCHANGED <<regVars, engineVars, cc, ht, rn, tl, sp>>

\* Map: if rs, ok := r.m[name]; ok
RsLookup(g) ==
    /\ rs.fault = ""
    /\ rs.pc[g] = "lookup"
    /\ \/ \E f \in Found(g, rs.call[g].name) :
              rs' = [rs EXCEPT !.pc[g] = IF f.ok THEN "seek" ELSE "runlock",
                               !.src[g] = f.src,
                               !.overlapped = @ \/ WriteInProgress(g)]
       \/ /\ WriteInProgress(g)
          /\ rs' = [rs EXCEPT !.fault = "concurrent map read and map write",
                              !.overlapped = TRUE]
    /\ UNCHANGED <<regVars, engineVars, cc, ht, rn, tl, sp>>

\* Map: rs.Seek(0, 0) on the reader that all calls share
RsSeek(g) ==
    /\ rs.fault = ""
    /\ rs.pc[g] = "seek"
    /\ rs' = [rs EXCEPT !.off[rs.call[g].name] = 0, !.pc[g] = "read"]
    /\ UNCHANGED <<regVars, engineVars, cc, ht, rn, tl, sp>>

\* Map: one Read of ioutil.ReadAll(rs): the rest of the content from the
\* reader's position on, or io.EOF at the end of the content
RsRead(g) ==
    /\ rs.fault = ""
    /\ rs.pc[g] = "read"
    /\ rs' = IF rs.off[rs.call[g].name] < Len(rs.src[g])
             THEN [rs EXCEPT !.buf[g] = @ \o SubSeq(rs.src[g],
                                                   rs.off[rs.call[g].name] + 1,
                                                   Len(rs.src[g])),
                             !.off[rs.call[g].name] = Len(rs.src[g])]
             ELSE [rs EXCEPT !.pc[g] = "runlock"]
    /\ UNCHANGED <<regVars, engineVars, cc, ht, rn, tl, sp>>

\* Map: r.mx.RUnlock(); return
RsRUnlock(g) ==
    /\ rs.fault = ""
    /\ rs.pc[g] = "runlock"
    /\ rs' = [rs EXCEPT !.readers = @ - 1, !.pc[g] = "done",
                        !.res[g] = [op |-> "Map", val |-> rs.buf[g]]]
    /\ UNCHANGED <<regVars, engineVars, cc, ht, rn, tl, sp>>

NextReadSeeker ==
    \E g \in Goroutines :
        \/ \E call \in ReadSeekerCalls : RsCall(g, call)
        \/ RsAddCheck(g)
        \/ RsAddStoreBegin(g)
        \/ RsAddStoreEnd(g)
        \/ RsRLock(g)
        \/ RsLookup(g)
        \/ RsSeek(g)
        \/ RsRead(g)
        \/ RsRUnlock(g)

SpecReadSeeker == InitReadSeeker /\ [][NextReadSeeker]_vars

----------------------------------------------------------------------------
(* Claims about the ReadSeekerMap, checked under SpecReadSeeker *)

\* the map after the first n calls of order o, made one by one
RECURSIVE SourcesAfter(_, _)
SourcesAfter(o, n) ==
    IF n = 0 THEN rs.m0
    ELSE IF rs.call[o[n]].op = "Add"
    THEN ReadSeekerMap_Add(SourcesAfter(o, n - 1), rs.call[o[n]].name,
                           rs.call[o[n]].content).m
    ELSE SourcesAfter(o, n - 1)

\* what the n-th call of order o returns when the calls are made one by one
SourceResult(o, n) ==
    IF rs.call[o[n]].op = "Add"
    THEN [op |-> "Add",
          err |-> ReadSeekerMap_Add(SourcesAfter(o, n - 1), rs.call[o[n]].name,
                                    rs.call[o[n]].content).err]
    ELSE [op |-> "Map",
          val |-> ReadSeekerMap_Map(SourcesAfter(o, n - 1), rs.call[o[n]].name)]

\* C16: a ReadSeekerMap may be used concurrently: the process is not ended
\* by a fatal error, the write of Add never overlaps a read of Map, and
\* when all goroutines have returned their results are those of some
\* sequential order of the calls (so a Map of a present name returns the
\* complete content).
C16_MayBeUsedConcurrently ==
    /\ rs.fault = ""
    /\ ~rs.overlapped
    /\ (\A g \in Goroutines : rs.pc[g] = "done") =>
           \E o \in Orders :
               /\ \A n \in 1..NumGoroutines : rs.res[o[n]] = SourceResult(o, n)
               /\ rs.m = SourcesAfter(o, NumGoroutines)

----------------------------------------------------------------------------
(* Claims about the locks and the data of a render, checked under SpecEngine *)

\* C21: every read lock that a Map call takes on the HTMLTemplate is
\* released when the call returns, on every path; so after the renders
\* have finished no read lock is held and a writer can take the lock.
C21_ReadLocksReleased ==
    tm.fault = NoFault =>
        /\ tm.readers = 0
        /\ CanLock(0, tm.readers)

\* the elements of the collection bound to name
ElementsOf(name) ==
    IF name \in DOMAIN tm.m /\ IsNMapper(tm.m[name])
    THEN {NMap(tm.m[name], i, <<>>) : i \in 0..(NMapperLen(tm.m[name]) - 1)}
    ELSE {}

\* C22: while the sub-template of an each is rendered for an element, every
\* placeholder of the sub-template is resolved with that element as the
\* preferred mapper, also the placeholders after a nested each or require;
\* a nested expansion leaves preferred as it found it, and preferred is
\* unset once the outermost each has returned.
C22_ElementStaysPreferred ==
    \A name \in BindingNames, inc \in TemplateNames :
        (/\ Len(calls) >= 1
         /\ calls[Len(calls)].input = EachInput(name, inc)
         /\ calls[Len(calls)].before.preferred = nil) =>
            /\ \A e \in Events("Map") :
                   /\ e.fuel = MaxStack - 1 => e.entry.preferred \in ElementsOf(name)
                   /\ e.fuel < MaxStack => e.exit.preferred = e.entry.preferred
            /\ calls[Len(calls)].fault = NoFault =>
                   calls[Len(calls)].after.preferred = nil

----------------------------------------------------------------------------
(* split on its own *)

\* longest input handed to split
MaxInputLen == 4

\* the inputs handed to split: the marker, a letter and the three
\* whitespace characters
SplitInputs == StringsUpTo({"-", "a", " ", "\t", "\n"}, MaxInputLen)

\* no call of split yet
InitSplit ==
    /\ sp = [started |-> TRUE, called |-> FALSE, input |-> <<>>,
             prefix |-> <<>>, rest |-> <<>>]
    /\ mp = [p \in {} |-> nil]
    /\ first = [p \in {} |-> nil]
    /\ regOp = [op |-> "New"]
    /\ tm = NewMapper([name \in {} |-> <<>>], [name \in {} |-> nil])
    /\ calls = <<>>
    /\ cc = NotStarted /\ ht = NotStarted /\ rn = NotStarted
    /\ tl = NotStarted /\ rs = NotStarted

\* the call prefix, rest := split(input)
SplitCall(input) ==
    /\ ~sp.called
    /\ sp' = [started |-> TRUE, called |-> TRUE, input |-> input,
              prefix |-> split(input).prefix, rest |-> split(input).rest]
    /\ UNCHANGED <<regVars, engineVars, cc, ht, rn, tl, rs>>

NextSplit == \E input \in SplitInputs : SplitCall(input)

SpecSplit == InitSplit /\ [][NextSplit]_vars

----------------------------------------------------------------------------
(* Claims about split, checked under SpecSplit *)

\* the 1-based positions of the whitespace characters of s
WhiteSpaceAt(s) == {i \in 1..Len(s) : s[i] \in WhiteSpace}

\* the least element of a non-empty set of positions
First(S) == CHOOSE i \in S : \A j \in S : i <= j

\* C24: split implements the placeholder grammar for every input: "" and
\* "-" give ("", ""); an input that does not start with "-" gives
\* ("", input); an input that starts with "-" gives as prefix the text
\* between the marker and the next whitespace character (space, tab or
\* newline alike) and as remainder the trimmed text after it, or the input
\* without the marker and "" when no whitespace follows.
C24_SplitGrammar ==
    sp.called =>
        IF sp.input = <<>> \/ sp.input = <<"-">>
        THEN sp.prefix = <<>> /\ sp.rest = <<>>
        ELSE IF sp.input[1] # "-"
        THEN sp.prefix = <<>> /\ sp.rest = sp.input
        ELSE IF WhiteSpaceAt(sp.input) = {}
        THEN sp.prefix = Tail(sp.input) /\ sp.rest = <<>>
        ELSE /\ sp.prefix = SubSeq(sp.input, 2, First(WhiteSpaceAt(sp.input)) - 1)
             /\ sp.rest = TrimSpace(SubSeq(sp.input, First(WhiteSpaceAt(sp.input)) + 1,
                                           Len(sp.input)))

====
